---- MODULE Spec2Model ----
(***************************************************************************)
(* Session-oriented chunked file transfer between a PC-side sender and an  *)
(* embedded receiver over a serial link (tools/*/pc_side/*.py).            *)
(*                                                                         *)
(* The sender tools are modelled from their source.  The receiver is an    *)
(* ESP32 sketch outside the Python sources; it is modelled from the        *)
(* written protocol description (the definitions named Rcv...).            *)
(***************************************************************************)
EXTENDS Integers, Sequences, FiniteSets, TLC

(***************************************************************************)
(* Bounds of the model.                                                    *)
(***************************************************************************)
\* bytes per chunk (220 / 256 / 1024 in the tools), scaled down
CHUNK_SIZE == 2
\* largest file size in bytes
MaxFileSize == 5
\* most responses that can be emitted and not yet read by the sender
MaxChan == 2
\* bytes the receiver's filesystem can hold for one file
RcvCapacity == 6

\* dataset stream: most commands the receiver decodes in one run
MaxCommands == 4
\* dataset stream: largest chunk length
MaxChunkLen == 2
\* csv sender: most lines of the csv file
MaxLines == 4
\* longest encoded session or dataset name
MaxNameLen == 257
\* single-file receiver: largest announced size and largest read
MaxRxSize == 3
MaxRxRead == 2
\* ESP32BIN sender: chunks of the largest file, bytes of the longest read
MaxBinChunks == 2
MaxAckRead == 2

(***************************************************************************)
(* Program constants.                                                      *)
(***************************************************************************)
MAX_RETRIES == 5
\* fetch_dataset_from_esp32.py: `if len(dataset_bytes) > 250`
DATASET_NAME_LIMIT == 250
\* the largest value struct.pack('B', ...) and bytes([...]) take
UCHAR_MAX == 255
\* tools/transfer_dataset.py: the response bytes 0xAA and 0x55
CMD_ACK == 170
CMD_NACK == 85

(***************************************************************************)
(* Checksum engine: binascii.crc32(data) & 0xFFFFFFFF.  A 32-bit value is   *)
(* kept as the pair <<high 16 bits, low 16 bits>> so that every            *)
(* intermediate value fits the model checker's integers.                   *)
(***************************************************************************)
\* a ^ b on 4-bit values
XorNibble ==
    [a \in 0..15 |-> [b \in 0..15 |->
        LET bit(x, i) == (x \div (2 ^ i)) % 2
            x(i) == ((bit(a, i) + bit(b, i)) % 2) * (2 ^ i)
        IN  x(0) + x(1) + x(2) + x(3)]]

\* a ^ b on 16-bit values
Xor(a, b) ==
    LET nib(x, i) == (x \div (16 ^ i)) % 16
        x(i) == XorNibble[nib(a, i)][nib(b, i)] * (16 ^ i)
    IN  x(0) + x(1) + x(2) + x(3)

\* one bit of the reflected CRC-32 (polynomial 0xEDB88320 = <<60856, 33568>>):
\* shift right, xor the polynomial when the bit shifted out is set
CrcShift(c) ==
    LET hi == c[1] \div 2
        lo == (c[2] \div 2) + ((c[1] % 2) * 32768)
    IN  IF c[2] % 2 = 1 THEN <<Xor(hi, 60856), Xor(lo, 33568)>>
        ELSE <<hi, lo>>

RECURSIVE CrcBits(_, _)
CrcBits(c, n) == IF n = 0 THEN c ELSE CrcBits(CrcShift(c), n - 1)

\* the CRC-32 of each byte value: the table of the table-driven algorithm
CrcByteTable == [b \in 0..255 |-> CrcBits(<<0, b>>, 8)]

\* crc = table[(crc ^ byte) & 0xFF] ^ (crc >> 8)
CrcUpdate(c, byte) ==
    LET t == CrcByteTable[Xor(c[2] % 256, byte)]
    IN  <<Xor(t[1], c[1] \div 256),
          Xor(t[2], (c[2] \div 256) + ((c[1] % 256) * 256))>>

RECURSIVE CrcBytes(_, _)
CrcBytes(c, data) ==
    IF data = <<>> THEN c
    ELSE CrcBytes(CrcUpdate(c, Head(data)), Tail(data))

Crc32Of(data) ==
    LET c == CrcBytes(<<65535, 65535>>, data)
    IN  <<65535 - c[1], 65535 - c[2]>>

(***************************************************************************)
(* Text of the responses.  A text is a sequence of one-character strings.  *)
(***************************************************************************)
RESP_ACK == <<"A", "C", "K">>
RESP_READY == <<"R", "E", "A", "D", "Y">>
RESP_OK == <<"O", "K">>
RESP_ERROR == <<"E", "R", "R", "O", "R">>
RESP_NACK == <<"N", "A", "C", "K">>
Space == <<" ">>
Newline == <<"\n">>

DigitChars == <<"0", "1", "2", "3", "4", "5", "6", "7", "8", "9">>

\* str(n) for n >= 0
RECURSIVE Dec(_)
Dec(n) ==
    IF n < 10 THEN <<DigitChars[n + 1]>>
    ELSE Dec(n \div 10) \o <<DigitChars[(n % 10) + 1]>>

IsDigit(ch) == \E d \in 1..10 : DigitChars[d] = ch
DigitValue(ch) == (CHOOSE d \in 1..10 : DigitChars[d] = ch) - 1

RECURSIVE DecValue(_, _)
DecValue(acc, s) ==
    IF s = <<>> THEN acc
    ELSE DecValue((10 * acc) + DigitValue(Head(s)), Tail(s))

IsWhite(ch) == ch \in {" ", "\n", "\r", "\t"}

\* bytes.strip(): leading and trailing whitespace removed
RECURSIVE LStrip(_)
LStrip(s) == IF s # <<>> /\ IsWhite(Head(s)) THEN LStrip(Tail(s)) ELSE s

RECURSIVE RStrip(_)
RStrip(s) ==
    IF s # <<>> /\ IsWhite(s[Len(s)]) THEN RStrip(SubSeq(s, 1, Len(s) - 1)) ELSE s

Strip(s) == LStrip(RStrip(s))

\* str.split(): the fields between runs of whitespace
RECURSIVE SplitFrom(_, _, _)
SplitFrom(s, cur, acc) ==
    IF s = <<>> THEN (IF cur = <<>> THEN acc ELSE Append(acc, cur))
    ELSE IF IsWhite(Head(s))
         THEN SplitFrom(Tail(s), <<>>, IF cur = <<>> THEN acc ELSE Append(acc, cur))
         ELSE SplitFrom(Tail(s), Append(cur, Head(s)), acc)

Split(s) == SplitFrom(s, <<>>, <<>>)

\* str.startswith(prefix)
StartsWith(s, prefix) ==
    Len(s) >= Len(prefix) /\ SubSeq(s, 1, Len(prefix)) = prefix

\* `needle in haystack` on bytes: substring search
Contains(haystack, needle) ==
    \E i \in 1..(Len(haystack) - Len(needle) + 1) :
        SubSeq(haystack, i, i + Len(needle) - 1) = needle

(***************************************************************************)
(* The session transfer tools.                                             *)
(*   transfer_model     tools/pre_train/data_transfer/pc_side/transfer_model.py      *)
(*   unifier_transfer   tools/data_transfer/pc_side/unifier_transfer.py              *)
(*   unified_transfer   tools/data_transfer/pc_side/unified_transfer.py       (V1)   *)
(*   dp_unified_transfer                                                   *)
(*           tools/data_processing/data_transfer/pc_side/unified_transfer.py         *)
(***************************************************************************)
Tools == {"transfer_model", "unifier_transfer", "unified_transfer", "dp_unified_transfer"}

\* protocol variant of a tool: V1 sends raw chunks and waits for the ACK token,
\* V2 sends offset+length+crc headers and reads ACK <offset> / NACK <offset>
IsV2(t) == t # "unified_transfer"

\* wait_for_response of the V2 tools returns False as soon as ERROR is seen
HasErrorCheck(t) == t # "unified_transfer"

\* main() of these tools returns an exit code; the unified tools' main returns None
ReturnsExitCode(t) == t \in {"transfer_model", "unifier_transfer"}

\* transfer_file of the unified tools announces an empty file with a FILE_INFO
\* holding only the size
HasEmptyFileCase(t) == t \in {"unified_transfer", "dp_unified_transfer"}

\* the order in which main() hands the files of a model to transfer_file
TransferOrder(t) ==
    CASE t = "transfer_model" -> <<"config", "npd", "nlg", "forest">>
      [] t = "unifier_transfer" ->
            <<"qtz", "dp", "nml", "hogcfg", "config", "forest", "npd", "nlg">>
      [] OTHER -> <<"ctg", "dp", "nml">>

\* the model's primary binary, <model>_forest.bin
IsCritical(name) == name = "forest"

\* contents of the k-th file handed to transfer_file: n distinct non-zero bytes
FileBytes(k, n) == [j \in 1..n |-> (16 * k) + j]

\* a slice that runs to the end of the file whatever the chunk size
Chunk_ToEnd(data, off) == SubSeq(data, off + 1, Len(data))

\* file_data[offset:offset + CHUNK_SIZE]
Chunk(data, off) ==
    SubSeq(data, off + 1, IF off + CHUNK_SIZE < Len(data) THEN off + CHUNK_SIZE ELSE Len(data))

\* a damaged payload: the first byte is overwritten
Corrupt(data) == IF data = <<>> THEN data ELSE <<0>> \o Tail(data)

\* the checksums of the payloads that occur, computed once
CrcTable ==
    LET chunks == { Chunk(FileBytes(k, n), off) :
                        k \in 1..3, n \in 0..MaxFileSize, off \in 0..MaxFileSize }
    IN  [d \in chunks \cup { Corrupt(c) : c \in chunks } |-> Crc32Of(d)]

crc32(data) == IF data \in DOMAIN CrcTable THEN CrcTable[data] ELSE Crc32Of(data)

\* a file on the PC's disk
File(name, k, n) == [name |-> name, exists |-> TRUE, data |-> FileBytes(k, n)]
Missing(name) == [name |-> name, exists |-> FALSE, data |-> <<>>]

Sizes == 0..MaxFileSize

\* in a list of two files each is empty or of the largest size
PairSizes == {0, MaxFileSize}

\* The transfer depends on a file's name only through IsCritical, so one place
\* (pair of places) of TransferOrder stands for all those with the same
\* criticality.
SinglePlaces(ord) ==
    { CHOOSE i \in 1..Len(ord) : IsCritical(ord[i]) = c :
        c \in { IsCritical(ord[i]) : i \in 1..Len(ord) } }

PairPlaces(ord) ==
    LET pairs == { p \in (1..Len(ord)) \X (1..Len(ord)) : p[1] < p[2] }
        kind(p) == <<IsCritical(ord[p[1]]), IsCritical(ord[p[2]])>>
    IN  { CHOOSE p \in pairs : kind(p) = k : k \in { kind(p) : p \in pairs } }

\* The transfer lists explored, of one or two files.  transfer_model and
\* unifier_transfer list the files that exist (get_model_files,
\* collect_all_files); the unified tools always try their three paths, of
\* which some may be missing.
FileLists(t) ==
    LET ord == TransferOrder(t)
    IN  IF HasEmptyFileCase(t)
        THEN { <<File(ord[1], 1, n), Missing(ord[2]), Missing(ord[3])>> : n \in Sizes }
             \cup { <<Missing(ord[1]), File(ord[2], 2, n), File(ord[3], 3, m)>> :
                        n \in PairSizes, m \in PairSizes }
        ELSE { <<File(ord[i], 1, n)>> : i \in SinglePlaces(ord), n \in Sizes }
             \cup { <<File(ord[p[1]], 1, n), File(ord[p[2]], 2, m)>> :
                        p \in PairPlaces(ord), n \in PairSizes, m \in PairSizes }

VARIABLES
    tool,           \* the tool that runs
    files,          \* the files main() hands to transfer_file, in order
    pc,             \* the sender's position
    fi,             \* index in files of the file being transferred
    file_size,      \* transfer_file: os.path.getsize(file_path)
    file_data,      \* transfer_file: the bytes read from the file
    offset,         \* chunk loop: offset of the current chunk
    attempt,        \* chunk loop: attempt number of the current chunk
    buffer,         \* wait_for_response: bytes read so far
    result,         \* return values of the transfer_file calls so far
    total_success,  \* main: files transferred successfully
    exit_code,      \* process exit code, -1 while the tool runs
    chan,           \* response lines emitted by the receiver and not yet read
    rsession,       \* receiver: a session is open
    rfile,          \* receiver: name of the open output file, "" if none
    rbytes,         \* receiver: bytes written to the open output file
    info_sent,      \* history: names whose FILE_INFO was sent
    chunk_sent,     \* history: names of which a FILE_CHUNK was sent
    rinfo_acked,    \* history: names whose FILE_INFO the receiver answered ACK
    rinfo_err,      \* history: names whose FILE_INFO the receiver answered ERROR
    sends,          \* history: FILE_CHUNK frames sent at the current offset
    end_sent,       \* history: END_SESSION was sent
    ready_ok,       \* history: outcome of the wait for READY
    ok_recv,        \* history: outcome of the wait for OK
    first_tx,       \* history: <<offset, length>> of the first transmission of
                    \* each chunk of the current file
    tx,             \* history: kind and file name of the last frame sent, and
                    \* the parity of the number of frames sent
    unresolved,     \* history: a frame was sent and the wait for its response
                    \* has not ended
    report,         \* the closing message main prints: "" while the tool runs,
                    \* "error", "incomplete" or "complete"
    \* fetch_dataset_from_esp32.py
    ds_pc,          \* position of main / transfer_dataset, "off" when not run
    ds_error,       \* the exception transfer_dataset raised, "" if none
    ds_exit,        \* exit code of main, -1 while it runs
    current_file,   \* transfer_dataset: target of the open handle, <<>> for None
    skipping_current,
    received_bytes,
    files_received,
    total_bytes,
    skipped_files,
    ds_open,        \* filesystem: targets with an open handle
    ds_disk,        \* filesystem: bytes written to each file created
    ds_dirs,        \* filesystem: directories created
    ds_peer,        \* "live", or where the peer stopped sending: "frame", "cmd"
    ds_poll,        \* parity of the empty reads of read_next_command
    ds_n,           \* commands decoded so far
    command,        \* the command read_next_command returned last
    relative_path,  \* the path of the file announced last
    unread,         \* bytes of the decoded frames still in the stream
    reported_size,  \* the size the last FILE_END declared
    resp,           \* what wait_for_response returned, "" before it returns
    files_closed,   \* history: files opened at a FILE_INFO and closed by a
                    \* FILE_END
    bytes_written   \* history: bytes passed to current_file.write

\* The serial transport of a tool from opening to exit
\* (transfer_dataset_params.py, transfer_model.py main, receiver.py).
VARIABLES
    tp_tool,        \* the tool that runs
    tp_pc,          \* where it is
    ser,            \* "none", "open" or "closed"
    tp_result,      \* what the tool returned or exited with, "" while it runs
    lines,          \* csv sender: file.readlines(), TRUE for a line with text
    line_i,         \* csv sender: index of the next line
    rx_size,        \* receiver.py: file_size
    received,       \* receiver.py: bytes received
    final_response  \* categorizer senders: the tokens read in the final wait

svars == <<tool, files, pc, fi, file_size, file_data, offset, attempt, buffer,
          result, total_success, exit_code, chan, rsession, rfile, rbytes,
          info_sent, chunk_sent, rinfo_acked, rinfo_err, sends, end_sent,
          ready_ok, ok_recv, first_tx, tx, unresolved, report>>

dvars == <<ds_pc, ds_error, ds_exit, current_file, skipping_current, received_bytes,
           files_received, total_bytes, skipped_files, ds_open, ds_disk, ds_dirs,
           ds_peer, ds_poll, ds_n, command, relative_path, unread, reported_size,
           resp, files_closed, bytes_written>>

\* The single-file V2 senders (transfer_dataset.py, transfer_dp_file.py).
VARIABLES
    sf_tool,        \* the tool that runs
    sf_pc,          \* where it is
    sf_size,        \* file_size
    sf_offset,      \* offset of the chunk being sent
    sf_attempt,     \* attempt of the retry loop
    bytes_sent,     \* bytes of the chunks that succeeded
    sf_acked,       \* offsets for which a matching ACK was read
    sf_line,        \* the line read last
    sf_delay,       \* milliseconds slept after the attempt that failed last
    sf_exit         \* exit status, -1 while the tool runs

fvars == <<sf_tool, sf_pc, sf_size, sf_offset, sf_attempt, bytes_sent, sf_acked,
           sf_line, sf_delay, sf_exit>>

\* read_next_command of the dataset receiver on a byte stream.
VARIABLES
    rn_input,       \* the bytes the port delivers
    rn_stream,      \* those not read yet
    rn_buffer,      \* buffer
    rn_pc,          \* "scan", "cmd" or "returned"
    rn_command      \* the byte returned, "" before

rvars == <<rn_input, rn_stream, rn_buffer, rn_pc, rn_command>>

\* The request that carries a session or dataset name.
VARIABLES
    nm_tool,        \* "fetch_dataset" or "transfer_model"
    nm_len,         \* encoded length of the dataset or session name
    nm_pc,          \* "start", "sent" or "rejected"
    nm_prefix,      \* the length byte of the payload, -1 when there is none
    nm_written      \* bytes written to the transport

nvars == <<nm_tool, nm_len, nm_pc, nm_prefix, nm_written>>

\* transfer_file from os.path.getsize to its return, next to a process that
\* rewrites the file (transfer_model.py, data_transfer unified_transfer.py).
VARIABLES
    gs_tool,        \* the tool that runs
    gs_pc,          \* where transfer_file is
    gs_disk,        \* length of the file on disk now
    gs_size,        \* file_size, -1 before os.path.getsize
    gs_len,         \* len(file_data), -1 when the file is not read whole
    gs_offset,      \* offset of the next chunk
    gs_sent,        \* bytes_sent: the lengths of the chunks sent
    gs_result       \* what transfer_file returned, "" while it runs

gvars == <<gs_tool, gs_pc, gs_disk, gs_size, gs_len, gs_offset, gs_sent, gs_result>>

\* ESP32Transferer.transfer_file of the ESP32BIN tool (tools/transfer_dataset.py).
VARIABLES
    bt_pc,          \* where transfer_file is
    bt_chunks,      \* chunks the file holds
    chunk_index,    \* index of the next chunk
    bt_frames,      \* history: the frames written, in order
    bt_acked,       \* history: the frames whose wait_for_ack returned True
    bt_data,        \* wait_for_ack: the bytes read last
    bt_result       \* what transfer_file returned, "" while it runs

bvars == <<bt_pc, bt_chunks, chunk_index, bt_frames, bt_acked, bt_data, bt_result>>

tvars == <<tp_tool, tp_pc, ser, tp_result, lines, line_i, rx_size, received,
           final_response>>

\* the state of the tools other than a session sender
aux == <<dvars, tvars, fvars, rvars, nvars, gvars, bvars>>

vars == <<svars, aux>>

\* a packet: command, file name and the fields of its payload
Frame(cmd, name) ==
    [cmd |-> cmd, name |-> name, v2 |-> FALSE, size |-> 0, crc |-> <<0, 0>>,
     chunk_size |-> 0, offset |-> 0, length |-> 0, data |-> <<>>]

\* the dataset receiver is not run
DsOff ==
    /\ ds_pc = "off"
    /\ ds_error = ""
    /\ ds_exit = -1
    /\ current_file = <<>>
    /\ skipping_current = FALSE
    /\ received_bytes = 0
    /\ files_received = 0
    /\ total_bytes = 0
    /\ skipped_files = 0
    /\ ds_open = {}
    /\ ds_disk = <<>>
    /\ ds_dirs = {}
    /\ ds_peer = "live"
    /\ ds_poll = 0
    /\ ds_n = 0
    /\ command = ""
    /\ relative_path = <<>>
    /\ unread = 0
    /\ reported_size = 0
    /\ resp = ""
    /\ files_closed = 0
    /\ bytes_written = 0

\* no single-file sender is run
SfOff ==
    /\ sf_tool = ""
    /\ sf_pc = "off"
    /\ sf_size = 0
    /\ sf_offset = 0
    /\ sf_attempt = 0
    /\ bytes_sent = 0
    /\ sf_acked = {}
    /\ sf_line = <<>>
    /\ sf_delay = 0
    /\ sf_exit = -1

\* read_next_command is not run
RnOff ==
    /\ rn_input = <<>>
    /\ rn_stream = <<>>
    /\ rn_buffer = <<>>
    /\ rn_pc = "off"
    /\ rn_command = ""

\* no name is sent
NmOff ==
    /\ nm_tool = ""
    /\ nm_len = 0
    /\ nm_pc = "off"
    /\ nm_prefix = -1
    /\ nm_written = 0

\* no transfer_file runs next to a writer
GsOff ==
    /\ gs_tool = ""
    /\ gs_pc = "off"
    /\ gs_disk = 0
    /\ gs_size = -1
    /\ gs_len = -1
    /\ gs_offset = 0
    /\ gs_sent = 0
    /\ gs_result = ""

\* the ESP32BIN tool is not run
BtOff ==
    /\ bt_pc = "off"
    /\ bt_chunks = 0
    /\ chunk_index = 0
    /\ bt_frames = <<>>
    /\ bt_acked = {}
    /\ bt_data = <<>>
    /\ bt_result = ""

\* no transport tool is run
TpOff ==
    /\ tp_tool = ""
    /\ tp_pc = "off"
    /\ ser = "none"
    /\ tp_result = ""
    /\ lines = <<>>
    /\ line_i = 0
    /\ rx_size = 0
    /\ received = 0
    /\ final_response = {}

\* no session sender is run
SenderOff ==
    /\ tool = "transfer_model"
    /\ files = <<>>
    /\ pc = "off"
    /\ fi = 1
    /\ file_size = 0
    /\ file_data = <<>>
    /\ offset = 0
    /\ attempt = 0
    /\ buffer = <<>>
    /\ result = <<>>
    /\ total_success = 0
    /\ exit_code = -1
    /\ chan = <<>>
    /\ rsession = FALSE
    /\ rfile = ""
    /\ rbytes = <<>>
    /\ info_sent = {}
    /\ chunk_sent = {}
    /\ rinfo_acked = {}
    /\ rinfo_err = {}
    /\ sends = 0
    /\ end_sent = FALSE
    /\ ready_ok = "pending"
    /\ ok_recv = "pending"
    /\ first_tx = <<>>
    /\ tx = [kind |-> "", name |-> "", n |-> 0, frame |-> Frame("", "")]
    /\ unresolved = FALSE
    /\ report = ""

Init ==
    /\ tool \in Tools
    /\ files \in FileLists(tool)
    /\ pc = "start"
    /\ fi = 1
    /\ file_size = 0
    /\ file_data = <<>>
    /\ offset = 0
    /\ attempt = 0
    /\ buffer = <<>>
    /\ result = <<>>
    /\ total_success = 0
    /\ exit_code = -1
    /\ chan = <<>>
    /\ rsession = FALSE
    /\ rfile = ""
    /\ rbytes = <<>>
    /\ info_sent = {}
    /\ chunk_sent = {}
    /\ rinfo_acked = {}
    /\ rinfo_err = {}
    /\ sends = 0
    /\ end_sent = FALSE
    /\ ready_ok = "pending"
    /\ ok_recv = "pending"
    /\ first_tx = <<>>
    /\ tx = [kind |-> "", name |-> "", n |-> 0, frame |-> Frame("", "")]
    /\ unresolved = FALSE
    /\ report = ""
    /\ DsOff
    /\ TpOff
    /\ SfOff
    /\ RnOff
    /\ NmOff
    /\ GsOff
    /\ BtOff

(***************************************************************************)
(* The receiver and the serial link.  A frame the sender writes is lost,   *)
(* or reaches the receiver intact or (a chunk) with a damaged payload; the *)
(* receiver's response line is queued for the sender or lost.  The         *)
(* receiver's reaction to each command follows the protocol description.   *)
(***************************************************************************)
\* a response line
Line(text) == [text |-> text]

\* the receiver's reaction to an intact START_SESSION
RcvStartSession(reject) ==
    IF reject
    THEN [session |-> rsession, file |-> rfile, bytes |-> rbytes, text |-> RESP_ERROR]
    ELSE [session |-> TRUE, file |-> "", bytes |-> <<>>, text |-> RESP_READY]

\* the receiver's reaction to a FILE_INFO: the previously open file is closed;
\* the announced file is opened and acknowledged, or refused with ERROR
RcvFileInfo(frame, reject) ==
    IF reject
    THEN [session |-> rsession, file |-> "", bytes |-> <<>>, text |-> RESP_ERROR]
    ELSE [session |-> rsession, file |-> frame.name, bytes |-> <<>>, text |-> RESP_ACK]

\* the receiver's reaction to a FILE_CHUNK: V2 verifies the chunk CRC, appends
\* the payload at the write cursor and answers ACK <offset>, or answers
\* NACK <offset> without advancing; V1 appends the raw bytes and answers ACK
RcvFileChunk(frame, reject) ==
    IF rfile = "" \/ reject \/ Len(rbytes) + Len(frame.data) > RcvCapacity
    THEN [session |-> rsession, file |-> rfile, bytes |-> rbytes,
          text |-> IF frame.v2 \/ rfile = "" THEN RESP_ERROR ELSE RESP_NACK]
    ELSE IF frame.v2 /\ crc32(frame.data) # frame.crc
    THEN [session |-> rsession, file |-> rfile, bytes |-> rbytes,
          text |-> RESP_NACK \o Space \o Dec(frame.offset) \o Space \o <<"c", "r", "c">>]
    ELSE [session |-> rsession, file |-> rfile, bytes |-> rbytes \o frame.data,
          text |-> IF frame.v2 THEN RESP_ACK \o Space \o Dec(frame.offset)
                   ELSE RESP_ACK]

\* the receiver's reaction to END_SESSION
RcvEndSession ==
    [session |-> FALSE, file |-> "", bytes |-> <<>>, text |-> RESP_OK]

Receive(frame, reject) ==
    CASE frame.cmd = "START_SESSION" -> RcvStartSession(reject)
      [] frame.cmd = "FILE_INFO" -> RcvFileInfo(frame, reject)
      [] frame.cmd = "FILE_CHUNK" -> RcvFileChunk(frame, reject)
      [] OTHER -> RcvEndSession

\* what can happen to a frame on its way and at the receiver
Fates(frame) ==
    {"ok", "lost", "noresp"}
    \cup (IF frame.cmd = "FILE_CHUNK" /\ frame.data # <<>> THEN {"corrupt"} ELSE {})
    \cup (IF frame.cmd \in {"START_SESSION", "FILE_INFO"}
             \/ (frame.cmd = "FILE_CHUNK" /\ ~frame.v2)
          THEN {"reject"} ELSE {})

\* send_command(ser, command, payload): the packet is written; the link and
\* the receiver do the rest
send_command(frame) ==
    /\ tx' = [kind |-> frame.cmd, name |-> frame.name, n |-> 1 - tx.n,
              frame |-> frame]
    /\ unresolved' = TRUE
    /\ \E fate \in Fates(frame) :
           \* a FILE_INFO without crc and chunk size is incomplete for a V2
           \* receiver, which answers nothing
           IF fate = "lost" \/ (frame.cmd = "FILE_INFO" /\ IsV2(tool) /\ ~frame.v2)
           THEN UNCHANGED <<chan, rsession, rfile, rbytes, rinfo_acked, rinfo_err>>
           ELSE
               LET arrived == IF fate = "corrupt"
                              THEN [frame EXCEPT !.data = Corrupt(frame.data)]
                              ELSE frame
                   r == Receive(arrived, fate = "reject")
               IN  /\ rsession' = r.session
                   /\ rfile' = r.file
                   /\ rbytes' = r.bytes
                   /\ rinfo_acked' =
                         IF frame.cmd = "FILE_INFO" /\ r.text = RESP_ACK
                         THEN rinfo_acked \cup {frame.name} ELSE rinfo_acked
                   /\ rinfo_err' =
                         IF frame.cmd = "FILE_INFO" /\ r.text = RESP_ERROR
                         THEN rinfo_err \cup {frame.name} ELSE rinfo_err
                   /\ chan' =
                         IF fate = "noresp" \/ Len(chan) >= MaxChan THEN chan
                         ELSE Append(chan, Line(r.text))

(***************************************************************************)
(* The frames.                                                             *)
(***************************************************************************)
\* FILE_INFO (V1): len + name + size
FileInfoV1(name, size) == [Frame("FILE_INFO", name) EXCEPT !.size = size]

\* FILE_INFO (V2): len + name + struct.pack('<III', file_size, file_crc, CHUNK_SIZE)
FileInfoV2(name, size, crc) ==
    [Frame("FILE_INFO", name) EXCEPT
        !.v2 = TRUE, !.size = size, !.crc = crc, !.chunk_size = CHUNK_SIZE]

\* a chunk frame that is built anew, from the start of the file, on a retry
FileChunkV2_FromStart(name, data, off) ==
    LET at == IF attempt > 1 THEN 0 ELSE off
        chunk == Chunk(data, at)
    IN  [Frame("FILE_CHUNK", name) EXCEPT
            !.v2 = TRUE, !.offset = at, !.length = Len(chunk),
            !.crc = crc32(chunk), !.data = chunk]

\* FILE_CHUNK (V2): struct.pack('<III', offset, chunk_len, chunk_crc) + chunk
FileChunkV2(name, data, off) ==
    LET chunk == Chunk(data, off)
    IN  [Frame("FILE_CHUNK", name) EXCEPT
            !.v2 = TRUE, !.offset = off, !.length = Len(chunk),
            !.crc = crc32(chunk), !.data = chunk]

\* FILE_CHUNK (V1): the raw bytes of f.read(CHUNK_SIZE)
FileChunkV1(name, data, off) ==
    [Frame("FILE_CHUNK", name) EXCEPT !.data = Chunk(data, off)]

(***************************************************************************)
(* The sender.                                                             *)
(***************************************************************************)
Name(k) == files[k].name

\* a main that starts over after every file
FileDone_Restart(ok) ==
    /\ result' = Append(result, ok)
    /\ total_success' = total_success
    /\ fi' = fi + 1
    /\ pc' = "start"

\* transfer_file returns ok: main goes on with the next file
FileDone(ok) ==
    /\ result' = Append(result, ok)
    /\ total_success' = IF ok /\ ReturnsExitCode(tool) THEN total_success + 1
                        ELSE total_success
    /\ fi' = fi + 1
    /\ pc' = "next_file"

\* main: send START_SESSION, then wait for READY
StartSession ==
    /\ pc = "start"
    /\ send_command(Frame("START_SESSION", ""))
    /\ pc' = "wait_ready"
    /\ buffer' = <<>>
    /\ UNCHANGED <<tool, files, fi, file_size, file_data, offset, attempt, result,
                   total_success, exit_code, info_sent, chunk_sent, sends, end_sent,
                   ready_ok, ok_recv, first_tx, report>>
    /\ UNCHANGED aux

\* what wait_for_response waits for at each position
Expected ==
    CASE pc = "wait_ready" -> RESP_READY
      [] pc = "wait_ok" -> RESP_OK
      [] OTHER -> RESP_ACK

\* the exit status of the process when main ends with `code`
ExitStatus(code) == IF ReturnsExitCode(tool) THEN code ELSE 0

\* a chunk loop that is entered whatever the size
EnterChunkLoop_Always ==
    /\ pc' = "send_chunk"
    /\ offset' = 0
    /\ attempt' = 1
    /\ UNCHANGED <<fi, result, total_success>>

\* the chunk loop is entered at offset 0, or is empty (range(0, 0, CHUNK_SIZE))
EnterChunkLoop ==
    IF file_size > 0
    THEN /\ pc' = "send_chunk"
         /\ offset' = 0
         /\ attempt' = 1
         /\ UNCHANGED <<fi, result, total_success>>
    ELSE /\ FileDone(TRUE)
         /\ UNCHANGED <<offset, attempt>>

\* V1: the chunk was acknowledged; f.read(CHUNK_SIZE) gives the next chunk, or
\* nothing at the end of the file
NextChunkV1 ==
    LET next == offset + Len(Chunk(file_data, offset))
    IN  /\ offset' = next
        /\ IF Chunk(file_data, next) # <<>>
           THEN pc' = "send_chunk" /\ UNCHANGED <<fi, result, total_success>>
           ELSE FileDone(TRUE)
        /\ UNCHANGED attempt

\* a main that goes on to the files whatever the wait for READY gave
ReadyResolved_GoOn(ok) ==
    /\ pc' = "next_file"
    /\ ready_ok' = IF ok THEN "yes" ELSE "no"
    /\ UNCHANGED <<exit_code, report>>

\* main: `if not wait_for_response(ser, RESP_READY)`: print the error and
\* return, else go on to the files
ReadyResolved(ok) ==
    /\ IF ok THEN pc' = "next_file" /\ UNCHANGED <<exit_code, report>>
       ELSE pc' = "done" /\ exit_code' = ExitStatus(1) /\ report' = "error"
    /\ ready_ok' = IF ok THEN "yes" ELSE "no"

\* main: the wait for OK after END_SESSION ended; the closing message is
\* printed and main returns
OkResolved(ok) ==
    /\ pc' = "done"
    /\ ok_recv' = IF ok THEN "yes" ELSE "no"
    /\ IF ~ok
       THEN exit_code' = ExitStatus(1) /\ report' = "error"
       ELSE IF ReturnsExitCode(tool) /\ total_success # Len(files)
       THEN exit_code' = ExitStatus(1) /\ report' = "incomplete"
       ELSE exit_code' = ExitStatus(0) /\ report' = "complete"

\* wait_for_response returned `ok`
Resolved(ok) ==
    /\ unresolved' = FALSE
    /\ CASE pc = "wait_ready" ->
               /\ ReadyResolved(ok)
               /\ UNCHANGED <<fi, offset, attempt, result, total_success, ok_recv>>
         [] pc = "wait_info" ->
               /\ IF ok THEN EnterChunkLoop
                  ELSE FileDone(FALSE) /\ UNCHANGED <<offset, attempt>>
               /\ UNCHANGED <<exit_code, ready_ok, ok_recv, report>>
         [] pc = "wait_chunk" ->
               /\ IF ok THEN NextChunkV1
                  ELSE FileDone(FALSE) /\ UNCHANGED <<offset, attempt>>
               /\ UNCHANGED <<exit_code, ready_ok, ok_recv, report>>
         [] OTHER ->
               /\ OkResolved(ok)
               /\ UNCHANGED <<fi, offset, attempt, result, total_success, ready_ok>>

WaitPcs == {"wait_ready", "wait_info", "wait_chunk", "wait_ok"}

RECURSIVE Joined(_)
Joined(ls) == IF ls = <<>> THEN <<>> ELSE Head(ls).text \o Newline \o Joined(Tail(ls))

\* wait_for_response: ser.read(ser.in_waiting) takes everything that has
\* arrived; the expected text is looked for anywhere in what was read
WaitRead ==
    /\ pc \in WaitPcs
    /\ \E k \in 1..Len(chan) :
        LET buf == buffer \o Joined(SubSeq(chan, 1, k))
        IN  /\ chan' = SubSeq(chan, k + 1, Len(chan))
            /\ IF Contains(buf, Expected)
               THEN Resolved(TRUE) /\ buffer' = <<>>
               ELSE IF HasErrorCheck(tool) /\ Contains(buf, RESP_ERROR)
               THEN Resolved(FALSE) /\ buffer' = <<>>
               ELSE /\ buffer' = IF Len(buf) > 1024
                                 THEN SubSeq(buf, Len(buf) - 511, Len(buf)) ELSE buf
                    /\ UNCHANGED <<pc, fi, offset, attempt, result, total_success,
                                   exit_code, ready_ok, ok_recv, unresolved, report>>
    /\ UNCHANGED <<tool, files, file_size, file_data, rsession, rfile, rbytes,
                   info_sent, chunk_sent, rinfo_acked, rinfo_err, sends, end_sent,
                   first_tx, tx>>
    /\ UNCHANGED aux

\* wait_for_response: the timeout elapses
WaitTimeout ==
    /\ pc \in WaitPcs
    /\ Resolved(FALSE)
    /\ buffer' = <<>>
    /\ UNCHANGED <<tool, files, file_size, file_data, chan, rsession, rfile, rbytes,
                   info_sent, chunk_sent, rinfo_acked, rinfo_err, sends, end_sent,
                   first_tx, tx>>
    /\ UNCHANGED aux

\* main calls transfer_file for the next file: a missing file is skipped;
\* otherwise the file is read and announced with FILE_INFO
BeginFile ==
    /\ pc = "next_file"
    /\ fi <= Len(files)
    /\ IF ~files[fi].exists
       THEN /\ FileDone(FALSE)
            /\ UNCHANGED <<file_size, file_data, buffer, chan, rsession, rfile, rbytes,
                           info_sent, rinfo_acked, rinfo_err, first_tx, tx,
                           unresolved>>
       ELSE LET size == Len(files[fi].data)
                data == files[fi].data
            IN  /\ file_size' = size
                /\ file_data' = data
                /\ IF HasEmptyFileCase(tool) /\ size = 0
                   THEN send_command(FileInfoV1(Name(fi), 0))
                   ELSE IF IsV2(tool)
                   THEN send_command(FileInfoV2(Name(fi), size, crc32(data)))
                   ELSE send_command(FileInfoV1(Name(fi), size))
                /\ info_sent' = info_sent \cup {Name(fi)}
                /\ first_tx' = <<>>
                /\ pc' = "wait_info"
                /\ buffer' = <<>>
                /\ UNCHANGED <<fi, result, total_success>>
    /\ sends' = 0
    /\ UNCHANGED <<tool, files, offset, attempt, exit_code, chunk_sent, end_sent,
                   ready_ok, ok_recv, report>>
    /\ UNCHANGED aux

\* a chunk loop that sends the chunk and does not wait for the response
SendChunk_NoWait ==
    /\ pc = "send_chunk"
    /\ send_command(FileChunkV2(Name(fi), file_data, offset))
    /\ UNCHANGED <<pc, buffer, chunk_sent, sends, first_tx>>
    /\ UNCHANGED <<tool, files, fi, file_size, file_data, offset, attempt, result,
                   total_success, exit_code, info_sent, end_sent, ready_ok, ok_recv,
                   report>>
    /\ UNCHANGED aux

\* the chunk loop sends the chunk at `offset`
SendChunk ==
    /\ pc = "send_chunk"
    /\ IF IsV2(tool)
       THEN /\ send_command(FileChunkV2(Name(fi), file_data, offset))
            /\ pc' = "wait_line"
       ELSE /\ send_command(FileChunkV1(Name(fi), file_data, offset))
            /\ pc' = "wait_chunk"
    /\ buffer' = <<>>
    /\ chunk_sent' = chunk_sent \cup {Name(fi)}
    /\ sends' = IF attempt = 1 THEN 1 ELSE sends + 1
    /\ first_tx' = IF attempt = 1
                   THEN Append(first_tx, <<offset, Len(Chunk(file_data, offset))>>)
                   ELSE first_tx
    /\ UNCHANGED <<tool, files, fi, file_size, file_data, offset, attempt, result,
                   total_success, exit_code, info_sent, end_sent, ready_ok, ok_recv,
                   report>>
    /\ UNCHANGED aux

\* int(line.split()[1]), -1 when that raises
AckOffset(line) ==
    LET fields == Split(line)
    IN  IF Len(fields) >= 2 /\ \A i \in 1..Len(fields[2]) : IsDigit(fields[2][i])
        THEN DecValue(0, fields[2]) ELSE -1

\* an ACK line of any offset
IsMatchingAck_AnyOffset(line, off) == StartsWith(line, RESP_ACK \o Space)

\* the line read for the chunk at `offset` is an ACK of that offset
IsMatchingAck(line, off) ==
    StartsWith(line, RESP_ACK \o Space) /\ AckOffset(line) = off

\* a loop that runs one attempt more
AttemptsLeft_OneMore(n) == n <= MAX_RETRIES

\* another attempt is left in `for attempt in range(1, MAX_RETRIES + 1)`
AttemptsLeft(n) == n < MAX_RETRIES

\* V2 chunk loop: what follows the line read after a chunk was sent
AfterLine(line) ==
    /\ unresolved' = FALSE
    /\ IF IsMatchingAck(line, offset)
       THEN /\ IF offset + CHUNK_SIZE < file_size
               THEN /\ offset' = offset + CHUNK_SIZE
                    /\ attempt' = 1
                    /\ pc' = "send_chunk"
                    /\ UNCHANGED <<fi, result, total_success>>
               ELSE /\ FileDone(TRUE)
                    /\ UNCHANGED <<offset, attempt>>
       ELSE IF AttemptsLeft(attempt)
       THEN /\ attempt' = attempt + 1
            /\ pc' = "send_chunk"
            /\ UNCHANGED <<fi, offset, result, total_success>>
       ELSE /\ FileDone(FALSE)
            /\ UNCHANGED <<offset, attempt>>

\* _readline_with_timeout: a response line has arrived
ReadLine ==
    /\ pc = "wait_line"
    /\ chan # <<>>
    /\ AfterLine(Strip(Head(chan).text \o Newline))
    /\ chan' = Tail(chan)
    /\ UNCHANGED <<tool, files, file_size, file_data, buffer, exit_code, rsession,
                   rfile, rbytes, info_sent, chunk_sent, rinfo_acked, rinfo_err,
                   sends, end_sent, ready_ok, ok_recv, first_tx, tx, report>>
    /\ UNCHANGED aux

\* _readline_with_timeout: nothing arrived in time, the line is empty
LineTimeout ==
    /\ pc = "wait_line"
    /\ AfterLine(<<>>)
    /\ UNCHANGED <<tool, files, file_size, file_data, buffer, exit_code, chan,
                   rsession, rfile, rbytes, info_sent, chunk_sent, rinfo_acked,
                   rinfo_err, sends, end_sent, ready_ok, ok_recv, first_tx, tx, report>>
    /\ UNCHANGED aux

\* a main that may end the session before every file was handed over
EndSession_Early ==
    /\ pc = "next_file"
    /\ send_command(Frame("END_SESSION", ""))
    /\ pc' = "wait_ok"
    /\ buffer' = <<>>
    /\ end_sent' = TRUE
    /\ UNCHANGED <<tool, files, fi, file_size, file_data, offset, attempt, result,
                   total_success, exit_code, info_sent, chunk_sent, sends, ready_ok,
                   ok_recv, first_tx, report>>
    /\ UNCHANGED aux

\* main: every file was handed to transfer_file; send END_SESSION, wait for OK
EndSession ==
    /\ pc = "next_file"
    /\ fi > Len(files)
    /\ send_command(Frame("END_SESSION", ""))
    /\ pc' = "wait_ok"
    /\ buffer' = <<>>
    /\ end_sent' = TRUE
    /\ UNCHANGED <<tool, files, fi, file_size, file_data, offset, attempt, result,
                   total_success, exit_code, info_sent, chunk_sent, sends, ready_ok,
                   ok_recv, first_tx, report>>
    /\ UNCHANGED aux

Next ==
    \/ StartSession
    \/ WaitRead
    \/ WaitTimeout
    \/ BeginFile
    \/ SendChunk
    \/ ReadLine
    \/ LineTimeout
    \/ EndSession

Spec == Init /\ [][Next]_vars

(***************************************************************************)
(* The dataset receiver: tools/data_collector/data_transfer/pc_side/       *)
(* fetch_dataset_from_esp32.py.  A path is a text whose characters are     *)
(* grouped in tokens: the separator "/" and whole segment names.           *)
(***************************************************************************)
Sep == "/"

\* the --dataset argument, a single segment name
Dataset == "d"

RESERVED_FOLDERS == {"_sessions", "_session"}

\* str.lower() on a segment name
Lower(name) ==
    CASE name = "_SESSIONS" -> "_sessions"
      [] name = "_Session" -> "_session"
      [] OTHER -> name

\* path.lstrip("/")
RECURSIVE LStripSep(_)
LStripSep(path) ==
    IF path # <<>> /\ Head(path) = Sep THEN LStripSep(Tail(path)) ELSE path

\* _strip_dataset_prefix(path, dataset)
StripDatasetPrefix(path) ==
    LET trimmed == LStripSep(path)
        prefix == <<Dataset, Sep>>
    IN  IF StartsWith(trimmed, prefix)
        THEN SubSeq(trimmed, Len(prefix) + 1, Len(trimmed))
        ELSE trimmed

\* transfer_dataset: the relative path of an announced file
RelativePath(original_path) ==
    LET stripped == StripDatasetPrefix(original_path)
    IN  IF stripped = <<>> THEN LStripSep(original_path) ELSE stripped

\* the segments of a path text between separators, empty ones included
RECURSIVE Segments(_, _)
Segments(path, cur) ==
    IF path = <<>> THEN <<cur>>
    ELSE IF Head(path) = Sep THEN <<cur>> \o Segments(Tail(path), "")
    ELSE Segments(Tail(path), Head(path))

\* Path(text).parts: the root "/" when the text starts with a separator,
\* then the segments that are neither empty nor "."
PathParts(path) ==
    LET segs == Segments(path, "")
        kept == SelectSeq(segs, LAMBDA g : g # "" /\ g # ".")
    IN  IF path # <<>> /\ Head(path) = Sep THEN <<Sep>> \o kept ELSE kept

\* `".." in path_obj.parts`
HasParentPart(parts) == \E i \in 1..Len(parts) : parts[i] = ".."

\* any(part.lower() in RESERVED_FOLDERS for part in path_obj.parts)
IsReserved(parts) == \E i \in 1..Len(parts) : Lower(parts[i]) \in RESERVED_FOLDERS

\* dataset_dir / path_obj: an absolute path_obj replaces dataset_dir.  A
\* target is the sequence of parts from the filesystem root; dataset_dir is
\* <<Sep, "result", Dataset>>.
DatasetDir == <<Sep, "result", Dataset>>

TargetPath(parts) ==
    IF parts # <<>> /\ parts[1] = Sep THEN parts ELSE DatasetDir \o parts

\* the target lies under dataset_dir, lexically
UnderRoot(target) ==
    /\ Len(target) >= Len(DatasetDir)
    /\ SubSeq(target, 1, Len(DatasetDir)) = DatasetDir
    /\ ~HasParentPart(target)

\* CMD_HEADER = b"ESP32_XFER"
CMD_HEADER == <<"E", "S", "P", "3", "2", "_", "X", "F", "E", "R">>

HEADER_LEN == Len(CMD_HEADER)

\* the bytes of a path text
RECURSIVE PathBytes(_)
PathBytes(path) ==
    IF path = <<>> THEN 0 ELSE Len(Head(path)) + PathBytes(Tail(path))

\* the bytes of a frame of the peer: magic, command byte, then for FILE_INFO
\* 2-byte path length + path + 4-byte size, for FILE_CHUNK 2-byte length +
\* bytes, for FILE_END 4-byte size, for DONE u32 + u64; n is the length of
\* the path or of the chunk
FrameLen(cmd, n) ==
    HEADER_LEN + 1 +
        CASE cmd = "FILE_INFO" -> 2 + n + 4
          [] cmd = "FILE_CHUNK" -> 2 + n
          [] cmd = "FILE_END" -> 4
          [] cmd = "DONE" -> 12
          [] OTHER -> 0

\* a receiver that leaves the payload of a chunk in the stream
Consumed_HeaderOnly(cmd, n) ==
    HEADER_LEN + 1 +
        CASE cmd = "FILE_INFO" -> 2 + n + 4
          [] cmd = "FILE_CHUNK" -> 2
          [] cmd = "FILE_END" -> 4
          [] cmd = "DONE" -> 12
          [] OTHER -> 0

\* the bytes read_next_command and the read_exact calls of a branch of
\* transfer_dataset take from the stream
Consumed(cmd, n) ==
    HEADER_LEN + 1 +
        CASE cmd = "FILE_INFO" -> 2 + n + 4
          [] cmd = "FILE_CHUNK" -> 2 + (IF n # 0 THEN n ELSE 0)
          [] cmd = "FILE_END" -> 4
          [] cmd = "DONE" -> 12
          [] OTHER -> 0

\* the bytes left in the stream once a frame was decoded
Unread(cmd, n) == unread + FrameLen(cmd, n) - Consumed(cmd, n)

\* the paths the peer announces
DsPaths ==
    { <<Sep, Dataset, Sep, "a">>,
      <<Dataset, Sep, "a", Sep, "b">>,
      <<Dataset, Sep, "_SESSIONS", Sep, "a">>,
      <<Dataset, Sep, "a", Sep, "_session">>,
      <<Dataset, Sep, "..", Sep, "a">>,
      <<Dataset, Sep, Sep, "a">>,
      <<Dataset, Sep>>,
      <<"c">> }

\* the directories above a target
Parents(target) == { SubSeq(target, 1, k) : k \in 1..(Len(target) - 1) }

\* ensure_parent / open(target, "wb") raise an OSError: a parent is a file, or
\* the target is a directory
OsRefuses(target) ==
    \/ target \in ds_dirs
    \/ target = DatasetDir
    \/ \E d \in Parents(target) : d \in DOMAIN ds_disk

\* a close() that leaves the handle open
Closed_Not(handle) == ds_open

\* the handles open once `handle` is closed
Closed(handle) == IF handle = <<>> THEN ds_open ELSE ds_open \ {handle}

\* an exception leaves the loop of transfer_dataset: the finally clause closes
\* the current file, main prints the error and returns 1
DsRaise(err) ==
    /\ ds_pc' = "raised"
    /\ ds_error' = err
    /\ ds_exit' = 1
    /\ ds_open' = Closed(current_file)

\* main: the port is open; transfer_dataset sends DATASET_REQUEST
DsRequest ==
    /\ ds_pc = "request"
    /\ ds_pc' = "wait_ready"
    /\ UNCHANGED <<ds_error, ds_exit, current_file, skipping_current, received_bytes,
                   files_received, total_bytes, skipped_files, ds_open, ds_disk,
                   ds_dirs, ds_peer, ds_poll, ds_n>>
    /\ UNCHANGED command
    /\ UNCHANGED relative_path
    /\ UNCHANGED unread
    /\ UNCHANGED reported_size
    /\ UNCHANGED resp
    /\ UNCHANGED files_closed
    /\ UNCHANGED bytes_written
    /\ UNCHANGED <<svars, tvars, fvars, rvars, nvars, gvars, bvars>>

\* wait_for_response(ser, timeout=8.0) returns READY, ERROR or DONE; ERROR
\* raises RuntimeError, the others start the stream
DsResponse ==
    /\ ds_pc = "wait_ready"
    /\ \E answer \in {"READY", "ERROR", "DONE"} :
        /\ resp' = answer
        /\ IF answer = "ERROR"
           THEN /\ DsRaise("RuntimeError")
                /\ UNCHANGED ds_dirs
           ELSE /\ ds_pc' = "stream"
                /\ ds_dirs' = ds_dirs \cup {DatasetDir}
                /\ UNCHANGED <<ds_error, ds_exit, ds_open>>
    /\ UNCHANGED <<current_file, skipping_current, received_bytes, files_received,
                   total_bytes, skipped_files, ds_disk, ds_peer, ds_poll, ds_n>>
    /\ UNCHANGED command
    /\ UNCHANGED relative_path
    /\ UNCHANGED unread
    /\ UNCHANGED reported_size
    /\ UNCHANGED files_closed
    /\ UNCHANGED bytes_written
    /\ UNCHANGED <<svars, tvars, fvars, rvars, nvars, gvars, bvars>>

\* wait_for_response: no recognised line within the timeout
DsResponseTimeout ==
    /\ ds_pc = "wait_ready"
    /\ DsRaise("TimeoutError")
    /\ UNCHANGED <<current_file, skipping_current, received_bytes, files_received,
                   total_bytes, skipped_files, ds_disk, ds_dirs, ds_peer, ds_poll,
                   ds_n>>
    /\ UNCHANGED command
    /\ UNCHANGED relative_path
    /\ UNCHANGED unread
    /\ UNCHANGED reported_size
    /\ UNCHANGED resp
    /\ UNCHANGED files_closed
    /\ UNCHANGED bytes_written
    /\ UNCHANGED <<svars, tvars, fvars, rvars, nvars, gvars, bvars>>

\* the stream is being decoded and the peer goes on sending
Decoding == ds_pc = "stream" /\ ds_peer = "live" /\ ds_n < MaxCommands

\* CMD_DATASET_FILE_INFO
DsFileInfo ==
    /\ Decoding
    /\ ds_n' = ds_n + 1
    /\ \E original_path \in DsPaths :
        LET parts == PathParts(RelativePath(original_path))
            target == TargetPath(parts)
            open1 == Closed(current_file)
        IN  /\ relative_path' = RelativePath(original_path)
            /\ unread' = Unread("FILE_INFO", PathBytes(original_path))
            /\ IF HasParentPart(parts)
               THEN /\ ds_pc' = "raised"
                    /\ ds_error' = "ValueError"
                    /\ ds_exit' = 1
                    /\ ds_open' = open1
                    /\ current_file' = <<>>
                    /\ UNCHANGED <<skipping_current, received_bytes, ds_disk, ds_dirs>>
               ELSE IF IsReserved(parts)
               THEN /\ skipping_current' = TRUE
                    /\ received_bytes' = 0
                    /\ current_file' = <<>>
                    /\ ds_open' = open1
                    /\ UNCHANGED <<ds_pc, ds_error, ds_exit, ds_disk, ds_dirs>>
               ELSE IF OsRefuses(target)
               THEN /\ ds_pc' = "raised"
                    /\ ds_error' = "OSError"
                    /\ ds_exit' = 1
                    /\ ds_open' = open1
                    /\ current_file' = <<>>
                    /\ skipping_current' = FALSE
                    /\ received_bytes' = 0
                    /\ UNCHANGED <<ds_disk, ds_dirs>>
               ELSE /\ skipping_current' = FALSE
                    /\ received_bytes' = 0
                    /\ ds_dirs' = ds_dirs \cup Parents(target)
                    /\ ds_disk' = [t \in DOMAIN ds_disk \cup {target} |->
                                      IF t = target THEN 0 ELSE ds_disk[t]]
                    /\ ds_open' = open1 \cup {target}
                    /\ current_file' = target
                    /\ UNCHANGED <<ds_pc, ds_error, ds_exit>>
    /\ UNCHANGED <<files_received, total_bytes, skipped_files, ds_peer, ds_poll>>
    /\ command' = "FILE_INFO"
    /\ UNCHANGED reported_size
    /\ UNCHANGED resp
    /\ UNCHANGED files_closed
    /\ UNCHANGED bytes_written
    /\ UNCHANGED <<svars, tvars, fvars, rvars, nvars, gvars, bvars>>

\* CMD_DATASET_FILE_CHUNK
DsFileChunk ==
    /\ Decoding
    /\ ds_n' = ds_n + 1
    /\ \E chunk_len \in 0..MaxChunkLen :
        /\ unread' = Unread("FILE_CHUNK", chunk_len)
        /\ ds_disk' = IF current_file # <<>> /\ chunk_len > 0 /\ ~skipping_current
                      THEN [ds_disk EXCEPT ![current_file] = @ + chunk_len]
                      ELSE ds_disk
        /\ received_bytes' = IF skipping_current THEN received_bytes
                             ELSE received_bytes + chunk_len
    /\ UNCHANGED <<ds_pc, ds_error, ds_exit, current_file, skipping_current,
                   files_received, total_bytes, skipped_files, ds_open, ds_dirs,
                   ds_peer, ds_poll>>
    /\ command' = "FILE_CHUNK"
    /\ UNCHANGED relative_path
    /\ UNCHANGED reported_size
    /\ UNCHANGED resp
    /\ UNCHANGED files_closed
    /\ bytes_written' = IF ds_disk' = ds_disk THEN bytes_written
                        ELSE bytes_written + (ds_disk'[current_file]
                                                - ds_disk[current_file])
    /\ UNCHANGED <<svars, tvars, fvars, rvars, nvars, gvars, bvars>>

\* a FILE_END branch that aborts on a size mismatch
DsFileEnd_Fatal ==
    /\ Decoding
    /\ reported_size' \in 0..MaxChunkLen
    /\ ds_n' = ds_n + 1
    /\ ds_open' = Closed(current_file)
    /\ current_file' = <<>>
    /\ IF skipping_current
       THEN /\ skipped_files' = skipped_files + 1
            /\ UNCHANGED <<files_received, total_bytes, ds_pc, ds_error, ds_exit>>
       ELSE IF reported_size' # received_bytes
       THEN /\ ds_pc' = "raised"
            /\ ds_error' = "ValueError"
            /\ ds_exit' = 1
            /\ UNCHANGED <<files_received, total_bytes, skipped_files>>
       ELSE /\ files_received' = files_received + 1
            /\ total_bytes' = total_bytes + received_bytes
            /\ UNCHANGED <<skipped_files, ds_pc, ds_error, ds_exit>>
    /\ skipping_current' = FALSE
    /\ UNCHANGED <<received_bytes, ds_disk, ds_dirs, ds_peer, ds_poll>>
    /\ command' = "FILE_END"
    /\ UNCHANGED relative_path
    /\ unread' = Unread("FILE_END", 0)
    /\ UNCHANGED resp
    /\ files_closed' = IF current_file # <<>> THEN files_closed + 1
                       ELSE files_closed
    /\ UNCHANGED bytes_written
    /\ UNCHANGED <<svars, tvars, fvars, rvars, nvars, gvars, bvars>>

\* CMD_DATASET_FILE_END
DsFileEnd ==
    /\ Decoding
    /\ reported_size' \in 0..MaxChunkLen
    /\ ds_n' = ds_n + 1
    /\ ds_open' = Closed(current_file)
    /\ current_file' = <<>>
    /\ IF skipping_current
       THEN /\ skipped_files' = skipped_files + 1
            /\ UNCHANGED <<files_received, total_bytes>>
       ELSE /\ files_received' = files_received + 1
            /\ total_bytes' = total_bytes + received_bytes
            /\ UNCHANGED skipped_files
    /\ skipping_current' = FALSE
    /\ UNCHANGED <<ds_pc, ds_error, ds_exit, received_bytes, ds_disk, ds_dirs,
                   ds_peer, ds_poll>>
    /\ command' = "FILE_END"
    /\ UNCHANGED relative_path
    /\ unread' = Unread("FILE_END", 0)
    /\ UNCHANGED resp
    /\ files_closed' = IF current_file # <<>> THEN files_closed + 1
                       ELSE files_closed
    /\ UNCHANGED bytes_written
    /\ UNCHANGED <<svars, tvars, fvars, rvars, nvars, gvars, bvars>>

\* an unexpected command that closes the file being received
DsUnexpected_CloseFile ==
    /\ Decoding
    /\ ds_n' = ds_n + 1
    /\ current_file' = <<>>
    /\ ds_open' = Closed(current_file)
    /\ UNCHANGED <<ds_pc, ds_error, ds_exit, skipping_current, received_bytes,
                   files_received, total_bytes, skipped_files, ds_disk, ds_dirs,
                   ds_peer, ds_poll>>
    /\ command' = "UNEXPECTED"
    /\ UNCHANGED relative_path
    /\ unread' = Unread("UNEXPECTED", 0)
    /\ UNCHANGED reported_size
    /\ UNCHANGED resp
    /\ UNCHANGED files_closed
    /\ UNCHANGED bytes_written
    /\ UNCHANGED <<svars, tvars, fvars, rvars, nvars, gvars, bvars>>

\* a command byte that is none of the dataset commands
DsUnexpected ==
    /\ Decoding
    /\ ds_n' = ds_n + 1
    /\ UNCHANGED <<ds_pc, ds_error, ds_exit, current_file, skipping_current,
                   received_bytes, files_received, total_bytes, skipped_files,
                   ds_open, ds_disk, ds_dirs, ds_peer, ds_poll>>
    /\ command' = "UNEXPECTED"
    /\ UNCHANGED relative_path
    /\ unread' = Unread("UNEXPECTED", 0)
    /\ UNCHANGED reported_size
    /\ UNCHANGED resp
    /\ UNCHANGED files_closed
    /\ UNCHANGED bytes_written
    /\ UNCHANGED <<svars, tvars, fvars, rvars, nvars, gvars, bvars>>

\* CMD_DATASET_DONE: the loop ends and the finally clause closes the file
DsDone ==
    /\ ds_pc = "stream"
    /\ ds_peer = "live"
    /\ ds_pc' = "wait_done"
    /\ ds_open' = Closed(current_file)
    /\ UNCHANGED <<ds_error, ds_exit, current_file, skipping_current, received_bytes,
                   files_received, total_bytes, skipped_files, ds_disk, ds_dirs,
                   ds_peer, ds_poll, ds_n>>
    /\ command' = "DONE"
    /\ UNCHANGED relative_path
    /\ unread' = Unread("DONE", 0)
    /\ UNCHANGED reported_size
    /\ UNCHANGED resp
    /\ UNCHANGED files_closed
    /\ UNCHANGED bytes_written
    /\ UNCHANGED <<svars, tvars, fvars, rvars, nvars, gvars, bvars>>

\* the peer stops inside the header or payload of a command: ser.read returns
\* nothing and read_exact raises TimeoutError
DsReadExactTimeout ==
    /\ ds_pc = "stream"
    /\ ds_peer = "live"
    /\ DsRaise("TimeoutError")
    /\ UNCHANGED <<current_file, skipping_current, received_bytes, files_received,
                   total_bytes, skipped_files, ds_disk, ds_dirs, ds_peer, ds_poll,
                   ds_n>>
    /\ UNCHANGED command
    /\ UNCHANGED relative_path
    /\ UNCHANGED unread
    /\ UNCHANGED reported_size
    /\ UNCHANGED resp
    /\ UNCHANGED files_closed
    /\ UNCHANGED bytes_written
    /\ UNCHANGED <<svars, tvars, fvars, rvars, nvars, gvars, bvars>>

\* the peer stops sending between two frames, or after the magic and before
\* the command byte
DsPeerStops ==
    /\ ds_pc = "stream"
    /\ ds_peer = "live"
    /\ \E where \in {"frame", "cmd"} : ds_peer' = where
    /\ UNCHANGED <<ds_pc, ds_error, ds_exit, current_file, skipping_current,
                   received_bytes, files_received, total_bytes, skipped_files,
                   ds_open, ds_disk, ds_dirs, ds_poll, ds_n>>
    /\ UNCHANGED command
    /\ UNCHANGED relative_path
    /\ UNCHANGED unread
    /\ UNCHANGED reported_size
    /\ UNCHANGED resp
    /\ UNCHANGED files_closed
    /\ UNCHANGED bytes_written
    /\ UNCHANGED <<svars, tvars, fvars, rvars, nvars, gvars, bvars>>

\* read_next_command: ser.read(1) returns nothing after the serial timeout and
\* the loop (`if not byte: continue`, `while not command`) reads again
DsEmptyRead ==
    /\ ds_pc = "stream"
    /\ ds_peer # "live"
    /\ ds_poll' = 1 - ds_poll
    /\ UNCHANGED <<ds_pc, ds_error, ds_exit, current_file, skipping_current,
                   received_bytes, files_received, total_bytes, skipped_files,
                   ds_open, ds_disk, ds_dirs, ds_peer, ds_n>>
    /\ UNCHANGED command
    /\ UNCHANGED relative_path
    /\ UNCHANGED unread
    /\ UNCHANGED reported_size
    /\ UNCHANGED resp
    /\ UNCHANGED files_closed
    /\ UNCHANGED bytes_written
    /\ UNCHANGED <<svars, tvars, fvars, rvars, nvars, gvars, bvars>>

\* wait_for_response(ser, timeout=2.0) ends with DONE, another line or a
\* timeout that is caught; transfer_dataset returns and main returns 0
DsReturn ==
    /\ ds_pc = "wait_done"
    /\ ds_pc' = "returned"
    /\ ds_exit' = 0
    /\ UNCHANGED <<ds_error, current_file, skipping_current, received_bytes,
                   files_received, total_bytes, skipped_files, ds_open, ds_disk,
                   ds_dirs, ds_peer, ds_poll, ds_n>>
    /\ UNCHANGED command
    /\ UNCHANGED relative_path
    /\ UNCHANGED unread
    /\ UNCHANGED reported_size
    /\ UNCHANGED resp
    /\ UNCHANGED files_closed
    /\ UNCHANGED bytes_written
    /\ UNCHANGED <<svars, tvars, fvars, rvars, nvars, gvars, bvars>>

DsInit ==
    /\ SenderOff
    /\ TpOff
    /\ SfOff
    /\ RnOff
    /\ NmOff
    /\ GsOff
    /\ BtOff
    /\ ds_pc = "request"
    /\ ds_error = ""
    /\ ds_exit = -1
    /\ current_file = <<>>
    /\ skipping_current = FALSE
    /\ received_bytes = 0
    /\ files_received = 0
    /\ total_bytes = 0
    /\ skipped_files = 0
    /\ ds_open = {}
    /\ ds_disk = <<>>
    /\ ds_dirs = {<<Sep>>, <<Sep, "result">>}
    /\ ds_peer = "live"
    /\ ds_poll = 0
    /\ ds_n = 0
    /\ command = ""
    /\ relative_path = <<>>
    /\ unread = 0
    /\ reported_size = 0
    /\ resp = ""
    /\ files_closed = 0
    /\ bytes_written = 0

DsNext ==
    \/ DsRequest
    \/ DsResponse
    \/ DsResponseTimeout
    \/ DsFileInfo
    \/ DsFileChunk
    \/ DsFileEnd
    \/ DsUnexpected
    \/ DsDone
    \/ DsReadExactTimeout
    \/ DsPeerStops
    \/ DsEmptyRead
    \/ DsReturn

DsSpec == DsInit /\ [][DsNext]_vars

\* the receiver always takes its next step
DsFairSpec == DsSpec /\ WF_vars(DsNext)

\* The tools that send a csv file line by line
CsvSenders ==
    {"transfer_dataset_params", "transfer_categorizer", "transfer_categorizer_dp"}

\* The tools that open the transport themselves
TransportTools ==
    {"transfer_dataset_params", "transfer_model", "receiver", "tranfer_bin_from_esp32",
     "transfer_categorizer", "transfer_categorizer_dp"}

\* the csv files: every sequence of at most MaxLines lines, blank or not
CsvFiles == UNION { [1..n -> BOOLEAN] : n \in 0..MaxLines }

\* the tool ends with `outcome`; the port is left as it is
TpExit(outcome) ==
    /\ tp_pc' = "done"
    /\ tp_result' = outcome
    /\ UNCHANGED ser

\* the tool closes the port and ends with `outcome`
TpExitClosed(outcome) ==
    /\ tp_pc' = "done"
    /\ tp_result' = outcome
    /\ ser' = "closed"

\* what the tool ends with when an exception is raised after the open
Failure == IF tp_tool \in CsvSenders THEN "False" ELSE "1"

\* ser = serial.Serial(...): the port opens, or the open raises
TpOpen ==
    /\ tp_pc = "start"
    /\ \E opened \in BOOLEAN :
        IF opened
        THEN /\ ser' = "open"
             /\ tp_pc' = CASE tp_tool = "transfer_dataset_params" -> "filename"
                           [] tp_tool = "transfer_model" -> "startup"
                           [] tp_tool = "tranfer_bin_from_esp32" -> "wait_start"
                           [] tp_tool = "receiver" -> "start_cmd"
                           [] OTHER -> "handshake"
             /\ UNCHANGED tp_result
        ELSE TpExit(Failure)
    /\ UNCHANGED <<tp_tool, lines, line_i, rx_size, received>>
    /\ UNCHANGED final_response
    /\ UNCHANGED <<svars, dvars, fvars, rvars, nvars, gvars, bvars>>

\* send_csv_to_esp32: the FILENAME line is written, then the csv file is read
CsvSendFilename ==
    /\ tp_tool = "transfer_dataset_params"
    /\ tp_pc = "filename"
    /\ \E raised \in BOOLEAN :
        IF raised
        THEN /\ TpExit("False")
             /\ UNCHANGED line_i
        ELSE /\ tp_pc' = "lines"
             /\ line_i' = 1
             /\ UNCHANGED <<ser, tp_result>>
    /\ UNCHANGED <<tp_tool, lines, rx_size, received>>
    /\ UNCHANGED final_response
    /\ UNCHANGED <<svars, dvars, fvars, rvars, nvars, gvars, bvars>>

\* send_csv_to_esp32: one line of the file; a blank line is skipped
CsvSendLine ==
    /\ tp_tool = "transfer_dataset_params"
    /\ tp_pc = "lines"
    /\ line_i <= Len(lines)
    /\ \E raised \in BOOLEAN :
        IF raised /\ lines[line_i]
        THEN /\ TpExit("False")
             /\ UNCHANGED line_i
        ELSE /\ line_i' = line_i + 1
             /\ UNCHANGED <<tp_pc, ser, tp_result>>
    /\ UNCHANGED <<tp_tool, lines, rx_size, received>>
    /\ UNCHANGED final_response
    /\ UNCHANGED <<svars, dvars, fvars, rvars, nvars, gvars, bvars>>

\* send_csv_to_esp32: the END marker, ser.close(), return True
CsvSendEnd ==
    /\ tp_tool = "transfer_dataset_params"
    /\ tp_pc = "lines"
    /\ line_i > Len(lines)
    /\ \E raised \in BOOLEAN :
        IF raised THEN TpExit("False") ELSE TpExitClosed("True")
    /\ UNCHANGED <<tp_tool, lines, line_i, rx_size, received>>
    /\ UNCHANGED final_response
    /\ UNCHANGED <<svars, dvars, fvars, rvars, nvars, gvars, bvars>>

\* transfer_model.py main, first try block: the startup messages are read
TmStartup ==
    /\ tp_tool = "transfer_model"
    /\ tp_pc = "startup"
    /\ \E raised \in BOOLEAN :
        IF raised
        THEN TpExit("1")
        ELSE /\ tp_pc' = "session"
             /\ UNCHANGED <<ser, tp_result>>
    /\ UNCHANGED <<tp_tool, lines, line_i, rx_size, received>>
    /\ UNCHANGED final_response
    /\ UNCHANGED <<svars, dvars, fvars, rvars, nvars, gvars, bvars>>

\* transfer_model.py main, second try block: every return and every exception
\* passes the finally clause
TmSession ==
    /\ tp_tool = "transfer_model"
    /\ tp_pc = "session"
    /\ \E outcome \in {"0", "1"} : TpExitClosed(outcome)
    /\ UNCHANGED <<tp_tool, lines, line_i, rx_size, received>>
    /\ UNCHANGED final_response
    /\ UNCHANGED <<svars, dvars, fvars, rvars, nvars, gvars, bvars>>

\* receiver.py: START is written and the size line read
RxStart ==
    /\ tp_tool = "receiver"
    /\ tp_pc = "start_cmd"
    /\ \E reply \in {"size", "invalid", "raised"} :
        IF reply = "size"
        THEN /\ \E n \in 0..MaxRxSize : rx_size' = n
             /\ tp_pc' = "recv"
             /\ UNCHANGED <<ser, tp_result>>
        ELSE /\ TpExit("1")
             /\ UNCHANGED rx_size
    /\ UNCHANGED <<tp_tool, lines, line_i, received>>
    /\ UNCHANGED final_response
    /\ UNCHANGED <<svars, dvars, fvars, rvars, nvars, gvars, bvars>>

\* receiver.py: one pass of the receive loop
RxChunk ==
    /\ tp_tool = "receiver"
    /\ tp_pc = "recv"
    /\ received < rx_size
    /\ \E raised \in BOOLEAN, n \in 0..MaxRxRead :
        IF raised
        THEN /\ TpExit("1")
             /\ UNCHANGED received
        ELSE IF n = 0
        THEN /\ tp_pc' = "done_msg"
             /\ UNCHANGED <<ser, tp_result, received>>
        ELSE /\ received' = received + n
             /\ UNCHANGED <<tp_pc, ser, tp_result>>
    /\ UNCHANGED <<tp_tool, lines, line_i, rx_size>>
    /\ UNCHANGED final_response
    /\ UNCHANGED <<svars, dvars, fvars, rvars, nvars, gvars, bvars>>

\* receiver.py: the loop ends with the file complete
RxComplete ==
    /\ tp_tool = "receiver"
    /\ tp_pc = "recv"
    /\ received >= rx_size
    /\ tp_pc' = "done_msg"
    /\ UNCHANGED <<tp_tool, ser, tp_result, lines, line_i, rx_size, received>>
    /\ UNCHANGED final_response
    /\ UNCHANGED <<svars, dvars, fvars, rvars, nvars, gvars, bvars>>

\* receiver.py: the closing message is read and the port closed
RxDoneMsg ==
    /\ tp_tool = "receiver"
    /\ tp_pc = "done_msg"
    /\ \E raised \in BOOLEAN :
        IF raised THEN TpExit("1") ELSE TpExitClosed("0")
    /\ UNCHANGED <<tp_tool, lines, line_i, rx_size, received>>
    /\ UNCHANGED final_response
    /\ UNCHANGED <<svars, dvars, fvars, rvars, nvars, gvars, bvars>>

\* tranfer_bin_from_esp32.py: lines are read until one is START, then until
\* one is a number; the port has no timeout
BinHeader ==
    /\ tp_tool = "tranfer_bin_from_esp32"
    /\ tp_pc \in {"wait_start", "wait_size"}
    /\ \E raised \in BOOLEAN, n \in 0..MaxRxSize :
        IF raised
        THEN /\ TpExit("1")
             /\ UNCHANGED rx_size
        ELSE IF tp_pc = "wait_start"
        THEN /\ tp_pc' = "wait_size"
             /\ UNCHANGED <<ser, tp_result, rx_size>>
        ELSE /\ tp_pc' = "recv"
             /\ rx_size' = n
             /\ UNCHANGED <<ser, tp_result>>
    /\ UNCHANGED <<tp_tool, lines, line_i, received>>
    /\ UNCHANGED final_response
    /\ UNCHANGED <<svars, dvars, fvars, rvars, nvars, gvars, bvars>>

\* the smaller of two numbers
Min(a, b) == IF a < b THEN a ELSE b

\* tranfer_bin_from_esp32.py: a blocking read of the next block
BinRead ==
    /\ tp_tool = "tranfer_bin_from_esp32"
    /\ tp_pc = "recv"
    /\ received < rx_size
    /\ \E raised \in BOOLEAN :
        IF raised
        THEN /\ TpExit("1")
             /\ UNCHANGED received
        ELSE /\ received' = received + Min(MaxRxRead, rx_size - received)
             /\ UNCHANGED <<tp_pc, ser, tp_result>>
    /\ UNCHANGED <<tp_tool, lines, line_i, rx_size>>
    /\ UNCHANGED final_response
    /\ UNCHANGED <<svars, dvars, fvars, rvars, nvars, gvars, bvars>>

\* tranfer_bin_from_esp32.py: the size is reached, file and port are closed
BinClose ==
    /\ tp_tool = "tranfer_bin_from_esp32"
    /\ tp_pc = "recv"
    /\ received >= rx_size
    /\ TpExitClosed("0")
    /\ UNCHANGED <<tp_tool, lines, line_i, rx_size, received>>
    /\ UNCHANGED final_response
    /\ UNCHANGED <<svars, dvars, fvars, rvars, nvars, gvars, bvars>>

\* The senders of a categorizer csv file
Categorizers == {"transfer_categorizer", "transfer_categorizer_dp"}

\* tools/transfer_categorizer.py adds every read to final_response;
\* data_processing/.../transfer_categorizer.py looks at each read alone
Accumulates == tp_tool = "transfer_categorizer"

\* the handshake: READY is read within the attempts, or not
CatHandshake ==
    /\ tp_tool \in Categorizers
    /\ tp_pc = "handshake"
    /\ \E reply \in {"READY", "none", "raised"} :
        IF reply = "READY"
        THEN /\ tp_pc' = "lines"
             /\ line_i' = 1
             /\ UNCHANGED <<ser, tp_result>>
        ELSE /\ TpExitClosed("False")
             /\ UNCHANGED line_i
    /\ UNCHANGED <<tp_tool, lines, rx_size, received, final_response>>
    /\ UNCHANGED <<svars, dvars, fvars, rvars, nvars, gvars, bvars>>

\* one line of the csv file is written; a blank line is skipped
CatSendLine ==
    /\ tp_tool \in Categorizers
    /\ tp_pc = "lines"
    /\ line_i <= Len(lines)
    /\ \E raised \in BOOLEAN :
        IF raised /\ lines[line_i]
        THEN /\ TpExitClosed("False")
             /\ UNCHANGED line_i
        ELSE /\ line_i' = line_i + 1
             /\ UNCHANGED <<tp_pc, ser, tp_result>>
    /\ UNCHANGED <<tp_tool, lines, rx_size, received, final_response>>
    /\ UNCHANGED <<svars, dvars, fvars, rvars, nvars, gvars, bvars>>

\* the end marker is written
CatSendEnd ==
    /\ tp_tool \in Categorizers
    /\ tp_pc = "lines"
    /\ line_i > Len(lines)
    /\ \E raised \in BOOLEAN :
        IF raised
        THEN TpExitClosed("False")
        ELSE /\ tp_pc' = "final"
             /\ UNCHANGED <<ser, tp_result>>
    /\ UNCHANGED <<tp_tool, lines, line_i, rx_size, received, final_response>>
    /\ UNCHANGED <<svars, dvars, fvars, rvars, nvars, gvars, bvars>>

\* what the sender returns when the final wait times out
FinalTimeout == "True"

\* the final wait: data is read and searched for SUCCESS, then for ERROR
CatFinalRead ==
    /\ tp_tool \in Categorizers
    /\ tp_pc = "final"
    /\ \E data \in SUBSET {"SUCCESS", "ERROR"} :
        /\ final_response' = IF Accumulates THEN final_response \cup data ELSE data
        /\ IF "SUCCESS" \in final_response'
           THEN TpExitClosed("True")
           ELSE IF "ERROR" \in final_response'
           THEN TpExitClosed("False")
           ELSE UNCHANGED <<tp_pc, ser, tp_result>>
    /\ UNCHANGED <<tp_tool, lines, line_i, rx_size, received>>
    /\ UNCHANGED <<svars, dvars, fvars, rvars, nvars, gvars, bvars>>

\* the final wait ends: its time is over, or a read raised
CatFinalEnd ==
    /\ tp_tool \in Categorizers
    /\ tp_pc = "final"
    /\ \E raised \in BOOLEAN :
        IF raised THEN TpExitClosed("False") ELSE TpExitClosed(FinalTimeout)
    /\ UNCHANGED <<tp_tool, lines, line_i, rx_size, received, final_response>>
    /\ UNCHANGED <<svars, dvars, fvars, rvars, nvars, gvars, bvars>>

TpInit ==
    /\ SenderOff
    /\ DsOff
    /\ SfOff
    /\ RnOff
    /\ NmOff
    /\ GsOff
    /\ BtOff
    /\ tp_tool \in TransportTools
    /\ tp_pc = "start"
    /\ ser = "none"
    /\ tp_result = ""
    /\ lines \in IF tp_tool \in CsvSenders THEN CsvFiles ELSE {<<>>}
    /\ line_i = 0
    /\ rx_size = 0
    /\ received = 0
    /\ final_response = {}

TpNext ==
    \/ TpOpen
    \/ CsvSendFilename
    \/ CsvSendLine
    \/ CsvSendEnd
    \/ TmStartup
    \/ TmSession
    \/ RxStart
    \/ RxChunk
    \/ RxComplete
    \/ RxDoneMsg
    \/ BinHeader
    \/ BinRead
    \/ BinClose
    \/ CatHandshake
    \/ CatSendLine
    \/ CatSendEnd
    \/ CatFinalRead
    \/ CatFinalEnd

TpSpec == TpInit /\ [][TpNext]_vars

\* The single-file V2 senders
SingleFileTools == {"transfer_dataset", "transfer_dp_file"}

READY_V2 == <<"R", "E", "A", "D", "Y", "_", "V", "2">>

TRANSFER_COMPLETE ==
    <<"T", "R", "A", "N", "S", "F", "E", "R", "_", "C", "O", "M", "P", "L", "E", "T", "E">>

\* the offsets of the chunks of a file: range(0, file_size, CHUNK_SIZE)
ChunkOffsets(size) == { off \in 0..(size - 1) : off % CHUNK_SIZE = 0 }

\* the lines the device may send, as they arrive
SfLines ==
    { READY_V2 \o Newline, TRANSFER_COMPLETE \o Newline, RESP_ERROR \o Newline,
      RESP_ACK \o Newline, RESP_ACK \o Space \o <<"x">> \o Newline,
      RESP_NACK \o Space \o Dec(0) \o Newline }
    \cup { RESP_ACK \o Space \o Dec(off) \o Newline : off \in ChunkOffsets(MaxFileSize) }

\* _readline_with_timeout: a line that arrived, stripped, or the empty string
\* when the time is over
SfResponses == { Strip(text) : text \in SfLines } \cup { <<>> }

\* the except clauses: the error is printed and the tool ends with status 1
SfFail ==
    /\ sf_pc' = "done"
    /\ sf_exit' = 1

\* the port is opened, the file read and the TRANSFER_V2 header written
SfHandshake ==
    /\ sf_pc = "start"
    /\ \E raised \in BOOLEAN :
        IF raised THEN SfFail
        ELSE /\ sf_pc' = "wait_ready"
             /\ UNCHANGED sf_exit
    /\ UNCHANGED <<sf_tool, sf_size, sf_offset, sf_attempt, bytes_sent, sf_acked,
                   sf_line, sf_delay>>
    /\ UNCHANGED <<svars, dvars, tvars, rvars, nvars, gvars, bvars>>

\* the wait for READY_V2
SfReady ==
    /\ sf_pc = "wait_ready"
    /\ \E response \in SfResponses :
        /\ sf_line' = response
        /\ IF response # READY_V2
           THEN /\ SfFail
                /\ UNCHANGED <<sf_offset, sf_attempt>>
           ELSE /\ sf_pc' = IF ChunkOffsets(sf_size) = {} THEN "end" ELSE "send_chunk"
                /\ sf_offset' = 0
                /\ sf_attempt' = 1
                /\ UNCHANGED sf_exit
    /\ UNCHANGED <<sf_tool, sf_size, bytes_sent, sf_acked, sf_delay>>
    /\ UNCHANGED <<svars, dvars, tvars, rvars, nvars, gvars, bvars>>

\* header and chunk are written
SfSendChunk ==
    /\ sf_pc = "send_chunk"
    /\ \E raised \in BOOLEAN :
        IF raised THEN SfFail
        ELSE /\ sf_pc' = "wait_line"
             /\ UNCHANGED sf_exit
    /\ UNCHANGED <<sf_tool, sf_size, sf_offset, sf_attempt, bytes_sent, sf_acked,
                   sf_line, sf_delay>>
    /\ UNCHANGED <<svars, dvars, tvars, rvars, nvars, gvars, bvars>>

\* len(chunk) for the chunk at `off`
SfChunkLen(off) == IF off + CHUNK_SIZE <= sf_size THEN CHUNK_SIZE ELSE sf_size - off

\* the milliseconds slept before the next attempt: none after a NACK line,
\* time.sleep(0.05) after anything else
RetryDelay(line) ==
    IF ~StartsWith(line, RESP_ACK \o Space) /\ StartsWith(line, RESP_NACK \o Space)
    THEN 0 ELSE 50

\* the line read after a chunk was written
SfReadLine ==
    /\ sf_pc = "wait_line"
    /\ \E line \in SfResponses :
        /\ sf_line' = line
        /\ IF IsMatchingAck(line, sf_offset)
           THEN /\ bytes_sent' = bytes_sent + SfChunkLen(sf_offset)
                /\ sf_acked' = sf_acked \cup {sf_offset}
                /\ sf_attempt' = 1
                /\ IF sf_offset + CHUNK_SIZE < sf_size
                   THEN /\ sf_offset' = sf_offset + CHUNK_SIZE
                        /\ sf_pc' = "send_chunk"
                   ELSE /\ sf_pc' = "end"
                        /\ UNCHANGED sf_offset
                /\ UNCHANGED <<sf_delay, sf_exit>>
           ELSE /\ sf_delay' = RetryDelay(line)
                /\ IF AttemptsLeft(sf_attempt)
                   THEN /\ sf_attempt' = sf_attempt + 1
                        /\ sf_pc' = "send_chunk"
                        /\ UNCHANGED sf_exit
                   ELSE /\ SfFail
                        /\ UNCHANGED sf_attempt
                /\ UNCHANGED <<sf_offset, bytes_sent, sf_acked>>
    /\ UNCHANGED <<sf_tool, sf_size>>
    /\ UNCHANGED <<svars, dvars, tvars, rvars, nvars, gvars, bvars>>

\* a sender that ends the transfer whatever the chunks' fate
SfSendEnd_Always ==
    /\ sf_pc \in {"end", "send_chunk"}
    /\ \E raised \in BOOLEAN :
        IF raised THEN SfFail
        ELSE /\ sf_pc' = "wait_final"
             /\ UNCHANGED sf_exit
    /\ UNCHANGED <<sf_tool, sf_size, sf_offset, sf_attempt, bytes_sent, sf_acked,
                   sf_line, sf_delay>>
    /\ UNCHANGED <<svars, dvars, tvars, rvars, nvars, gvars, bvars>>

\* TRANSFER_END is written
SfSendEnd ==
    /\ sf_pc = "end"
    /\ \E raised \in BOOLEAN :
        IF raised THEN SfFail
        ELSE /\ sf_pc' = "wait_final"
             /\ UNCHANGED sf_exit
    /\ UNCHANGED <<sf_tool, sf_size, sf_offset, sf_attempt, bytes_sent, sf_acked,
                   sf_line, sf_delay>>
    /\ UNCHANGED <<svars, dvars, tvars, rvars, nvars, gvars, bvars>>

\* the final wait: TRANSFER_COMPLETE is success, anything else an exception
SfFinal ==
    /\ sf_pc = "wait_final"
    /\ \E raised \in BOOLEAN, response \in SfResponses :
        IF raised
        THEN /\ SfFail
             /\ UNCHANGED sf_line
        ELSE /\ sf_line' = response
             /\ sf_pc' = "done"
             /\ sf_exit' = IF response = TRANSFER_COMPLETE THEN 0 ELSE 1
    /\ UNCHANGED <<sf_tool, sf_size, sf_offset, sf_attempt, bytes_sent, sf_acked,
                   sf_delay>>
    /\ UNCHANGED <<svars, dvars, tvars, rvars, nvars, gvars, bvars>>

SfInit ==
    /\ SenderOff
    /\ DsOff
    /\ TpOff
    /\ RnOff
    /\ NmOff
    /\ GsOff
    /\ BtOff
    /\ sf_tool \in SingleFileTools
    /\ sf_pc = "start"
    /\ sf_size \in 0..MaxFileSize
    /\ sf_offset = 0
    /\ sf_attempt = 0
    /\ bytes_sent = 0
    /\ sf_acked = {}
    /\ sf_line = <<>>
    /\ sf_delay = 0
    /\ sf_exit = -1

SfNext ==
    \/ SfHandshake
    \/ SfReady
    \/ SfSendChunk
    \/ SfReadLine
    \/ SfSendEnd
    \/ SfFinal

SfSpec == SfInit /\ [][SfNext]_vars

\* line terminators: `byte in b"\r\n"`
LineTerminators == {"\r", "\n"}

\* the magic with one byte put in after its first k bytes
MagicWith(k, byte) ==
    SubSeq(CMD_HEADER, 1, k) \o <<byte>> \o SubSeq(CMD_HEADER, k + 1, HEADER_LEN)

\* what precedes and what follows the magic in the streams tried
StreamHeads == { <<>>, <<"z">>, <<"\n">>, <<"E", "S">> }
StreamTails == { <<>>, <<"c">>, <<"\n", "c">>, <<"c", "z">> }

\* the byte streams tried: a head, the magic whole or with a line terminator
\* or another byte inside, a tail
Streams ==
    { head \o magic \o tail :
        head \in StreamHeads,
        magic \in {CMD_HEADER} \cup
                  { MagicWith(k, byte) : k \in 1..(HEADER_LEN - 1),
                                         byte \in LineTerminators \cup {"z"} },
        tail \in StreamTails }

\* the last n items of a sequence: buffer[-HEADER_LEN:]
LastOf(s, n) == IF Len(s) > n THEN SubSeq(s, Len(s) - n + 1, Len(s)) ELSE s

\* read_next_command: one byte is read in the scan for the magic
RnScan ==
    /\ rn_pc = "scan"
    /\ rn_stream # <<>>
    /\ rn_stream' = Tail(rn_stream)
    /\ LET byte == Head(rn_stream)
       IN  IF byte \in LineTerminators
           THEN UNCHANGED <<rn_buffer, rn_pc>>
           ELSE /\ rn_buffer' = LastOf(Append(rn_buffer, byte), HEADER_LEN)
                /\ rn_pc' = IF rn_buffer' = CMD_HEADER THEN "cmd" ELSE "scan"
    /\ UNCHANGED <<rn_input, rn_command>>
    /\ UNCHANGED <<svars, dvars, tvars, fvars, nvars, gvars, bvars>>

\* read_next_command: the byte after the magic is read and returned
RnCommand ==
    /\ rn_pc = "cmd"
    /\ rn_stream # <<>>
    /\ rn_stream' = Tail(rn_stream)
    /\ rn_command' = Head(rn_stream)
    /\ rn_pc' = "returned"
    /\ UNCHANGED <<rn_input, rn_buffer>>
    /\ UNCHANGED <<svars, dvars, tvars, fvars, nvars, gvars, bvars>>

RnInit ==
    /\ SenderOff
    /\ DsOff
    /\ TpOff
    /\ SfOff
    /\ NmOff
    /\ GsOff
    /\ BtOff
    /\ rn_input \in Streams
    /\ rn_stream = rn_input
    /\ rn_buffer = <<>>
    /\ rn_pc = "scan"
    /\ rn_command = ""

RnNext ==
    \/ RnScan
    \/ RnCommand

RnSpec == RnInit /\ [][RnNext]_vars

\* struct.pack('B', n) and bytes([n]): the byte n, an error beyond a byte
PackB(n) == IF n >= 0 /\ n <= UCHAR_MAX THEN n ELSE -1

\* a packet with a name: magic, command byte, length byte, name
NamePacketLen(n) == HEADER_LEN + 1 + 1 + n

\* transfer_dataset: the name is checked, then DATASET_REQUEST is written
NmDatasetRequest ==
    /\ nm_tool = "fetch_dataset"
    /\ nm_pc = "start"
    /\ IF nm_len > DATASET_NAME_LIMIT \/ PackB(nm_len) = -1
       THEN /\ nm_pc' = "rejected"
            /\ UNCHANGED <<nm_prefix, nm_written>>
       ELSE /\ nm_pc' = "sent"
            /\ nm_prefix' = PackB(nm_len)
            /\ nm_written' = NamePacketLen(nm_len)
    /\ UNCHANGED <<nm_tool, nm_len>>
    /\ UNCHANGED <<svars, dvars, tvars, fvars, rvars, gvars, bvars>>

\* transfer_model.py main: the payload is packed, then START_SESSION is
\* written; struct.error is caught by `except Exception`
NmStartSession ==
    /\ nm_tool = "transfer_model"
    /\ nm_pc = "start"
    /\ IF PackB(nm_len) = -1
       THEN /\ nm_pc' = "rejected"
            /\ UNCHANGED <<nm_prefix, nm_written>>
       ELSE /\ nm_pc' = "sent"
            /\ nm_prefix' = PackB(nm_len)
            /\ nm_written' = NamePacketLen(nm_len)
    /\ UNCHANGED <<nm_tool, nm_len>>
    /\ UNCHANGED <<svars, dvars, tvars, fvars, rvars, gvars, bvars>>

NmInit ==
    /\ SenderOff
    /\ DsOff
    /\ TpOff
    /\ SfOff
    /\ RnOff
    /\ GsOff
    /\ BtOff
    /\ nm_tool \in {"fetch_dataset", "transfer_model"}
    /\ nm_len \in 0..MaxNameLen
    /\ nm_pc = "start"
    /\ nm_prefix = -1
    /\ nm_written = 0

NmNext ==
    \/ NmDatasetRequest
    \/ NmStartSession

NmSpec == NmInit /\ [][NmNext]_vars

(***************************************************************************)
(* transfer_file and a file that changes under it.  os.path.getsize and     *)
(* the read of the contents are two system calls; another process can       *)
(* rewrite the file before, between and after them.  The file is modelled   *)
(* by its length.                                                           *)
(***************************************************************************)
\* transfer_model.py reads the whole file before FILE_INFO; data_transfer
\* unified_transfer.py reads it chunk by chunk after FILE_INFO
GsTools == {"transfer_model", "unified_transfer"}

\* another process rewrites the file while transfer_file runs
GsWriter ==
    /\ gs_pc \in {"getsize", "read", "info", "chunks"}
    /\ \E n \in 0..MaxFileSize :
        /\ n # gs_disk
        /\ gs_disk' = n
    /\ UNCHANGED <<gs_tool, gs_pc, gs_size, gs_len, gs_offset, gs_sent, gs_result>>
    /\ UNCHANGED <<svars, dvars, tvars, fvars, rvars, nvars, bvars>>

\* file_size = os.path.getsize(file_path)
GsGetSize ==
    /\ gs_pc = "getsize"
    /\ gs_size' = gs_disk
    /\ gs_pc' = IF gs_tool = "transfer_model" THEN "read" ELSE "info"
    /\ UNCHANGED <<gs_tool, gs_disk, gs_len, gs_offset, gs_sent, gs_result>>
    /\ UNCHANGED <<svars, dvars, tvars, fvars, rvars, nvars, bvars>>

\* transfer_model.py: file_data = f.read(); the CRC32 of FILE_INFO is
\* computed over file_data
GsRead ==
    /\ gs_pc = "read"
    /\ gs_len' = gs_disk
    /\ gs_pc' = "info"
    /\ UNCHANGED <<gs_tool, gs_disk, gs_size, gs_offset, gs_sent, gs_result>>
    /\ UNCHANGED <<svars, dvars, tvars, fvars, rvars, nvars, bvars>>

\* FILE_INFO announces file_size; without the ACK transfer_file returns False.
\* unified_transfer.py returns True for a file_size of 0 once it is
\* acknowledged
GsFileInfo ==
    /\ gs_pc = "info"
    /\ \E ack \in BOOLEAN :
        IF ~ack
        THEN /\ gs_pc' = "done"
             /\ gs_result' = "False"
        ELSE IF gs_tool = "unified_transfer" /\ gs_size = 0
        THEN /\ gs_pc' = "done"
             /\ gs_result' = "True"
        ELSE /\ gs_pc' = "chunks"
             /\ UNCHANGED gs_result
    /\ UNCHANGED <<gs_tool, gs_disk, gs_size, gs_len, gs_offset, gs_sent>>
    /\ UNCHANGED <<svars, dvars, tvars, fvars, rvars, nvars, bvars>>

\* the bytes the chunk loop sends next: transfer_model.py slices file_data at
\* the offsets of range(0, file_size, CHUNK_SIZE); unified_transfer.py reads
\* CHUNK_SIZE bytes from the open file until a read returns nothing
GsChunkLen ==
    IF gs_tool = "transfer_model"
    THEN Len(Chunk(FileBytes(1, gs_len), gs_offset))
    ELSE Len(Chunk(FileBytes(1, gs_disk), gs_offset))

\* the chunk loop has another round
GsMore ==
    IF gs_tool = "transfer_model" THEN gs_offset < gs_size ELSE GsChunkLen > 0

\* one round of the chunk loop: the chunk is sent; bytes_sent grows when it
\* is acknowledged, otherwise transfer_file returns False
GsChunk ==
    /\ gs_pc = "chunks"
    /\ GsMore
    /\ \E ack \in BOOLEAN :
        IF ack
        THEN /\ gs_sent' = gs_sent + GsChunkLen
             /\ gs_offset' = IF gs_tool = "transfer_model"
                             THEN gs_offset + CHUNK_SIZE
                             ELSE gs_offset + GsChunkLen
             /\ UNCHANGED <<gs_pc, gs_result>>
        ELSE /\ gs_pc' = "done"
             /\ gs_result' = "False"
             /\ UNCHANGED <<gs_sent, gs_offset>>
    /\ UNCHANGED <<gs_tool, gs_disk, gs_size, gs_len>>
    /\ UNCHANGED <<svars, dvars, tvars, fvars, rvars, nvars, bvars>>

\* the chunk loop is over: return True
GsReturn ==
    /\ gs_pc = "chunks"
    /\ ~GsMore
    /\ gs_pc' = "done"
    /\ gs_result' = "True"
    /\ UNCHANGED <<gs_tool, gs_disk, gs_size, gs_len, gs_offset, gs_sent>>
    /\ UNCHANGED <<svars, dvars, tvars, fvars, rvars, nvars, bvars>>

GsInit ==
    /\ SenderOff
    /\ DsOff
    /\ TpOff
    /\ SfOff
    /\ RnOff
    /\ NmOff
    /\ BtOff
    /\ gs_tool \in GsTools
    /\ gs_pc = "getsize"
    /\ gs_disk \in 0..MaxFileSize
    /\ gs_size = -1
    /\ gs_len = -1
    /\ gs_offset = 0
    /\ gs_sent = 0
    /\ gs_result = ""

GsNext ==
    \/ GsWriter
    \/ GsGetSize
    \/ GsRead
    \/ GsFileInfo
    \/ GsChunk
    \/ GsReturn

GsSpec == GsInit /\ [][GsNext]_vars

(***************************************************************************)
(* ESP32Transferer.transfer_file of tools/transfer_dataset.py (ESP32BIN):  *)
(* START_TRANSFER, the chunks of the file, END_TRANSFER, each followed by  *)
(* wait_for_ack.  The peer's bytes are any mix of ACK, NACK and others.    *)
(***************************************************************************)
\* what one ser.read(ser.in_waiting) of wait_for_ack can return
BtReads ==
    UNION { [1..n -> {CMD_ACK, CMD_NACK, 0}] : n \in 1..MaxAckRead }

\* wait_for_ack on the bytes of one read: the scan stops at the first ACK
\* (True) or NACK (False); without either the wait goes on
WaitForAck(data) ==
    LET hits == { i \in 1..Len(data) : data[i] \in {CMD_ACK, CMD_NACK} }
        first == CHOOSE i \in hits : \A j \in hits : i <= j
    IN  IF hits = {} THEN "none"
        ELSE IF data[first] = CMD_ACK THEN "ack" ELSE "nack"

\* a packet of the ESP32BIN protocol
BtFrame(cmd, index) == [cmd |-> cmd, index |-> index]

\* the frame written last
BtLast == bt_frames[Len(bt_frames)]

\* send_start_command writes START_TRANSFER
BtStart ==
    /\ bt_pc = "start"
    /\ bt_frames' = Append(bt_frames, BtFrame("START_TRANSFER", 0))
    /\ bt_pc' = "wait"
    /\ UNCHANGED <<bt_chunks, chunk_index, bt_acked, bt_data, bt_result>>
    /\ UNCHANGED <<svars, dvars, tvars, fvars, rvars, nvars, gvars>>

\* wait_for_ack reads what has arrived.  An ACK lets transfer_file go on (or
\* return True after END_TRANSFER); a NACK makes it return False
BtRead ==
    /\ bt_pc = "wait"
    /\ \E data \in BtReads :
        /\ bt_data' = data
        /\ CASE WaitForAck(data) = "ack" ->
                   /\ bt_acked' = bt_acked \cup {BtLast}
                   /\ chunk_index' = IF BtLast.cmd = "DATA_CHUNK"
                                     THEN chunk_index + 1 ELSE chunk_index
                   /\ IF BtLast.cmd = "END_TRANSFER"
                      THEN /\ bt_pc' = "done"
                           /\ bt_result' = "True"
                      ELSE /\ bt_pc' = "send"
                           /\ UNCHANGED bt_result
             [] WaitForAck(data) = "nack" ->
                   /\ bt_pc' = "done"
                   /\ bt_result' = "False"
                   /\ UNCHANGED <<bt_acked, chunk_index>>
             [] OTHER ->
                   UNCHANGED <<bt_pc, bt_result, bt_acked, chunk_index>>
    /\ UNCHANGED <<bt_chunks, bt_frames>>
    /\ UNCHANGED <<svars, dvars, tvars, fvars, rvars, nvars, gvars>>

\* wait_for_ack: the timeout passes without ACK or NACK
BtTimeout ==
    /\ bt_pc = "wait"
    /\ bt_pc' = "done"
    /\ bt_result' = "False"
    /\ bt_data' = <<>>
    /\ UNCHANGED <<bt_chunks, chunk_index, bt_frames, bt_acked>>
    /\ UNCHANGED <<svars, dvars, tvars, fvars, rvars, nvars, gvars>>

\* send_data_chunk writes the chunk f.read(CHUNK_SIZE) returned
BtSendChunk ==
    /\ bt_pc = "send"
    /\ chunk_index < bt_chunks
    /\ bt_frames' = Append(bt_frames, BtFrame("DATA_CHUNK", chunk_index))
    /\ bt_pc' = "wait"
    /\ UNCHANGED <<bt_chunks, chunk_index, bt_acked, bt_data, bt_result>>
    /\ UNCHANGED <<svars, dvars, tvars, fvars, rvars, nvars, gvars>>

\* an end command that does not wait for the end of the file
BtSendEnd_Early ==
    /\ bt_pc = "send"
    /\ bt_frames' = Append(bt_frames, BtFrame("END_TRANSFER", 0))
    /\ bt_pc' = "wait"
    /\ UNCHANGED <<bt_chunks, chunk_index, bt_acked, bt_data, bt_result>>
    /\ UNCHANGED <<svars, dvars, tvars, fvars, rvars, nvars, gvars>>

\* f.read returned nothing: send_end_command writes END_TRANSFER
BtSendEnd ==
    /\ bt_pc = "send"
    /\ chunk_index >= bt_chunks
    /\ bt_frames' = Append(bt_frames, BtFrame("END_TRANSFER", 0))
    /\ bt_pc' = "wait"
    /\ UNCHANGED <<bt_chunks, chunk_index, bt_acked, bt_data, bt_result>>
    /\ UNCHANGED <<svars, dvars, tvars, fvars, rvars, nvars, gvars>>

BtInit ==
    /\ SenderOff
    /\ DsOff
    /\ TpOff
    /\ SfOff
    /\ RnOff
    /\ NmOff
    /\ GsOff
    /\ bt_pc = "start"
    /\ bt_chunks \in 0..MaxBinChunks
    /\ chunk_index = 0
    /\ bt_frames = <<>>
    /\ bt_acked = {}
    /\ bt_data = <<>>
    /\ bt_result = ""

BtNext ==
    \/ BtStart
    \/ BtRead
    \/ BtTimeout
    \/ BtSendChunk
    \/ BtSendEnd

BtSpec == BtInit /\ [][BtNext]_vars

(***************************************************************************)
(* Properties.                                                             *)
(***************************************************************************)
\* the text of the line ACK <off>
AckText(off) == RESP_ACK \o Space \o Dec(off)

\* the last transfer_file call returned `ok` and main has not yet gone on
LastResultIs(ok) == pc = "next_file" /\ result # <<>> /\ result[Len(result)] = ok

\* this step of the V2 chunk loop goes on to the next chunk, or ends the file
\* with success
C1_Advanced ==
    \/ fi' = fi /\ offset' = offset + CHUNK_SIZE /\ pc' = "send_chunk"
    \/ fi' = fi + 1 /\ result' = Append(result, TRUE)

\* this step reads the line ACK <offset> for the chunk just sent
C1_ReadMatchingAck ==
    chan # <<>> /\ chan' = Tail(chan) /\ Head(chan).text = AckText(offset)

\* C1: in the V2 chunk loop the sender advances only on reading ACK <n> with n
\* the offset of the chunk just sent; on any other line (NACK, an ACK of
\* another or of no offset) or a timeout the offset stays and the same chunk
\* is sent again, or the attempts are used up and the file fails.
C1_AdvanceOnlyOnMatchingAck ==
    [][pc = "wait_line" =>
        /\ C1_Advanced => C1_ReadMatchingAck
        /\ ~C1_ReadMatchingAck =>
              /\ offset' = offset
              /\ file_data' = file_data
              /\ \/ fi' = fi /\ pc' = "send_chunk" /\ attempt' = attempt + 1
                 \/ fi' = fi + 1 /\ result' = Append(result, FALSE)]_vars

\* the second chunk of a file is being sent again after a response that was no
\* matching ACK
C1_Witness ==
    IsV2(tool) /\ pc = "send_chunk" /\ offset = CHUNK_SIZE /\ attempt = 2

\* C2: whenever the V2 sender reports a file as transferred that the receiver
\* has opened, the receiver's file of that name holds exactly the bytes of the
\* source file.
C2_RoundTrip ==
    (IsV2(tool) /\ LastResultIs(TRUE) /\ Name(fi - 1) \in rinfo_acked) =>
        (rfile = Name(fi - 1) /\ rbytes = files[fi - 1].data)

\* the number of sender steps the V2 chunk loop can still take: two for every
\* attempt left on the current chunk and on the chunks after it
C3_Rank ==
    IF IsV2(tool) /\ pc \in {"send_chunk", "wait_line"}
    THEN LET left == (file_size - offset + CHUNK_SIZE - 1) \div CHUNK_SIZE
         IN  2 * ((MAX_RETRIES * left) - (attempt - 1))
                - (IF pc = "wait_line" THEN 1 ELSE 0)
    ELSE 0

\* C3: a chunk is sent at most MAX_RETRIES times; when the last attempt brings
\* no matching ACK transfer_file returns failure and main goes on with the
\* next file; every step of the chunk loop lowers a natural-valued rank, so
\* transfer_file ends whatever the responses and timeouts are.
C3_RetryBound ==
    /\ [](sends <= MAX_RETRIES)
    /\ [][(pc = "wait_line" /\ sends = MAX_RETRIES /\ ~C1_ReadMatchingAck) =>
            (result' = Append(result, FALSE) /\ fi' = fi + 1 /\ pc' = "next_file")]_vars
    /\ [][(IsV2(tool) /\ pc \in {"send_chunk", "wait_line"}) =>
            (C3_Rank' < C3_Rank /\ C3_Rank' >= 0)]_vars

\* the first file failed in its chunk loop and the second file was announced
C3_Witness ==
    /\ IsV2(tool)
    /\ pc = "wait_info"
    /\ fi = 2
    /\ result = <<FALSE>>
    /\ Name(1) \in chunk_sent

RECURSIVE C4_SumLen(_)
C4_SumLen(txs) == IF txs = <<>> THEN 0 ELSE Head(txs)[2] + C4_SumLen(Tail(txs))

\* C4: the first transmissions of the chunks of a file of size S > 0 are at
\* the offsets 0, C, 2C, ... < S, each of length 1..C; when the V2 sender has
\* completed the file there are ceil(S/C) of them and their lengths sum to S.
C4_ChunkPlan ==
    (IsV2(tool) /\ fi <= Len(files) + 1) =>
        /\ \A i \in 1..Len(first_tx) :
              /\ first_tx[i][1] = (i - 1) * CHUNK_SIZE
              /\ first_tx[i][2] >= 1
              /\ first_tx[i][2] <= CHUNK_SIZE
        /\ (LastResultIs(TRUE) /\ Len(files[fi - 1].data) > 0) =>
              LET S == Len(files[fi - 1].data)
              IN  /\ Len(first_tx) = (S + CHUNK_SIZE - 1) \div CHUNK_SIZE
                  /\ first_tx[Len(first_tx)][1] < S
                  /\ C4_SumLen(first_tx) = S

\* a file of the largest size, of several chunks, was completed
C4_Witness ==
    /\ IsV2(tool)
    /\ LastResultIs(TRUE)
    /\ Len(files[fi - 1].data) = MaxFileSize
    /\ Len(first_tx) >= 2

\* C5: when READY is not received the sender sends no FILE_INFO and no
\* FILE_CHUNK, hands no file to transfer_file, and main ends with its error
\* message (and with exit code 1 where main returns one).
C5_NoReadyFails ==
    (pc = "done" /\ ready_ok = "no") =>
        /\ info_sent = {}
        /\ chunk_sent = {}
        /\ result = <<>>
        /\ report = "error"
        /\ ReturnsExitCode(tool) => exit_code = 1

\* the wait for READY failed although the receiver had answered, and main
\* has returned
C5_Witness ==
    pc = "done" /\ ready_ok = "no" /\ rsession /\ tx.kind = "START_SESSION"

\* C6: the exit code is 0 only when READY was received, every file was
\* transferred and END_SESSION was answered OK; in every other outcome it is 1.
C6_ExitCode ==
    pc = "done" =>
        \/ /\ ready_ok = "yes"
           /\ Len(result) = Len(files)
           /\ \A k \in 1..Len(result) : result[k]
           /\ ok_recv = "yes"
        \/ exit_code = 1

\* C7: a FILE_CHUNK of a file is sent only after the receiver has answered
\* that file's FILE_INFO with an acknowledgment.
C7_ChunksAfterInfoAck == chunk_sent \subseteq rinfo_acked

\* this step of the V1 sender takes the FILE_INFO or chunk as acknowledged
C8_Acked == pc' = "send_chunk" \/ result' = Append(result, TRUE)

\* this step reads a response line that is the ACK token
C8_ReadAckToken ==
    \E i \in 1..(Len(chan) - Len(chan')) : chan[i].text = RESP_ACK

\* C8: the V1 sender takes a FILE_INFO or chunk as acknowledged only when the
\* response read is the ACK token.
C8_OnlyAckToken ==
    [][(tool = "unified_transfer" /\ pc \in {"wait_info", "wait_chunk"}) =>
          (C8_Acked => C8_ReadAckToken)]_vars

\* C9: when the receiver answers a file's FILE_INFO with ERROR, no chunk of
\* that file is sent, the file counts as failed, and the FILE_INFO of every
\* other file and END_SESSION are still sent.
C9_ErrorIsolatesFile ==
    tool = "transfer_model" =>
        /\ rinfo_err \cap chunk_sent = {}
        /\ \A k \in 1..Len(result) : Name(k) \in rinfo_err => ~result[k]
        /\ (pc = "done" /\ rinfo_err # {}) =>
              (end_sent /\ \A k \in 1..Len(files) : Name(k) \in info_sent)

\* C10: once the transfer of the critical file has failed no FILE_INFO of a
\* later file is sent, and the run ends with a non-zero exit code.
C10_CriticalStops ==
    \A k \in 1..Len(result) :
        (IsCritical(Name(k)) /\ ~result[k]) =>
            /\ \A j \in (k + 1)..Len(files) : Name(j) \notin info_sent
            /\ pc = "done" => exit_code = 1

\* this step writes a frame to the link
FrameSent == tx' # tx

\* this step writes a frame of the kind `kind`
SentKind(kind) == tx' # tx /\ tx'.kind = kind

\* C11: the frames of a run are START_SESSION, then for each file its
\* FILE_INFO followed by its FILE_CHUNK frames, then END_SESSION:
\* START_SESSION is the first frame and is sent once, FILE_INFO and FILE_CHUNK
\* are sent only after READY was received and before END_SESSION, a chunk
\* follows the FILE_INFO or a chunk of the same file, and nothing is sent
\* after END_SESSION.
C11_SessionOrder ==
    [][
        /\ SentKind("START_SESSION") <=> (FrameSent /\ tx.kind = "")
        /\ (SentKind("FILE_INFO") \/ SentKind("FILE_CHUNK")) =>
               (ready_ok = "yes" /\ ~end_sent)
        /\ SentKind("FILE_INFO") =>
               (tx'.name = Name(fi) /\ tx'.name \notin info_sent)
        /\ SentKind("FILE_CHUNK") =>
               (tx.kind \in {"FILE_INFO", "FILE_CHUNK"} /\ tx.name = tx'.name)
        /\ SentKind("END_SESSION") => ready_ok = "yes"
        /\ FrameSent => ~end_sent
    ]_vars

\* chunks of two files were sent and END_SESSION has followed
C11_Witness ==
    /\ pc = "wait_ok"
    /\ Len(files) = 2
    /\ chunk_sent = {Name(1), Name(2)}
    /\ tx.kind = "END_SESSION"

\* C12: when READY was received END_SESSION is sent exactly once, after every
\* file's transfer was resolved, whatever the number of failed files; when no
\* OK follows, the run ends as failed and the count of transferred files is
\* as it was.
C12_EndSessionOnce ==
    /\ []((pc = "done" /\ ready_ok = "yes") => end_sent)
    /\ [][
            /\ SentKind("END_SESSION") => (~end_sent /\ Len(result) = Len(files))
            /\ pc = "wait_ok" => (total_success' = total_success /\ result' = result)
            /\ (pc = "wait_ok" /\ ok_recv' = "no") =>
                   /\ report' = "error"
                   /\ ReturnsExitCode(tool) => exit_code' = 1
       ]_vars

\* a file was transferred, another failed, END_SESSION was sent and no OK
\* followed
C12_Witness ==
    /\ pc = "done"
    /\ ok_recv = "no"
    /\ end_sent
    /\ total_success = 1
    /\ Len(result) = 2

\* C13: a frame is sent only when the wait that followed the previous frame
\* has ended, by a response read or by its timeout.
C13_NoPipelining ==
    /\ [][FrameSent => ~unresolved]_vars
    /\ [][(unresolved /\ ~unresolved') =>
            (chan' = chan \/ (chan # <<>> /\ Len(chan') < Len(chan)))]_vars

\* a chunk was sent again and its response is awaited
C13_Witness ==
    pc = "wait_line" /\ attempt = 2 /\ unresolved /\ tx.kind = "FILE_CHUNK"

\* this step of the wait for the FILE_INFO response reads an acknowledgment
C14_AckRead ==
    \E i \in 1..(Len(chan) - Len(chan')) : Contains(chan[i].text, RESP_ACK)

\* C14: a file of size 0 is announced with FILE_INFO; when that is
\* acknowledged transfer_file returns success, and no FILE_CHUNK of the file
\* is ever sent.
C14_EmptyFile ==
    /\ [](\A k \in 1..Len(files) :
            /\ (files[k].exists /\ files[k].data = <<>>) => Name(k) \notin chunk_sent
            /\ (k <= Len(result) /\ result[k]) => Name(k) \in info_sent)
    /\ [][(pc = "wait_info" /\ file_size = 0 /\ C14_AckRead) =>
            (result' = Append(result, TRUE) /\ pc' = "next_file")]_vars

\* an empty file was announced, acknowledged by the receiver and reported as
\* transferred
C14_Witness ==
    /\ LastResultIs(TRUE)
    /\ files[fi - 1].data = <<>>
    /\ Name(fi - 1) \in rinfo_acked

\* C15: a path with a ".." part raises the illegal-path error before a
\* directory is created or a file opened, so every file the dataset receiver
\* created or wrote lies under the mirror root.
C15_UnderMirrorRoot == \A target \in DOMAIN ds_disk : UnderRoot(target)

\* C16: an illegal (path-traversal) path is fatal to that file only: the
\* illegal-path error never ends transfer_dataset, which goes on decoding the
\* commands that follow.
C16_IllegalPathNotFatal == ds_pc = "raised" => ds_error # "ValueError"

\* C17: when the peer stops sending before DATASET_DONE (between frames,
\* inside a header or before the command byte), transfer_dataset eventually
\* fails with a timeout.
C17_StalledStreamTimesOut ==
    (ds_pc = "stream" /\ ds_peer # "live") ~>
        (ds_pc = "raised" /\ ds_error = "TimeoutError")

\* C18: the dataset receiver has at most one output file open: the open
\* file is closed before the next FILE_INFO opens one, none is open after
\* FILE_END, and none is open when transfer_dataset returns or raises.
C18_OneOpenFile ==
    /\ Cardinality(ds_open) <= 1
    /\ (ds_pc = "stream" /\ command = "FILE_END") => ds_open = {}
    /\ ds_pc \in {"wait_done", "returned", "raised"} => ds_open = {}

\* a second file was announced while the first was open, and is the one open
C18_Witness ==
    /\ Cardinality(DOMAIN ds_disk) = 2
    /\ \A target \in DOMAIN ds_disk : UnderRoot(target)
    /\ ds_open = {current_file}
    /\ command = "FILE_INFO"
    /\ ds_n = 2

\* the first segment of the path has a reserved name
FirstSegmentReserved(parts) ==
    parts # <<>> /\ Lower(parts[1]) \in RESERVED_FOLDERS

\* C20: a path is treated as reserved exactly when its first segment has a
\* reserved name, whatever the case; a path whose reserved-named segment is
\* not the first one is mirrored to disk.
C20_ReservedFirstSegment ==
    (ds_pc = "stream" /\ command = "FILE_INFO") =>
        LET parts == PathParts(relative_path)
        IN  /\ skipping_current <=> FirstSegmentReserved(parts)
            /\ ~FirstSegmentReserved(parts) => current_file = TargetPath(parts)

\* C19: on every exit path of a transfer tool after the serial transport was
\* opened, the transport is closed before the tool returns.
C19_TransportClosed == (tp_pc = "done" /\ ser # "none") => ser = "closed"

\* C21: for a file announced under a reserved path the receiver creates and
\* writes no file, takes the length field and the payload of every chunk from
\* the stream, and at FILE_END counts the file as skipped, not as received.
C21_ReservedConsumed ==
    /\ [](skipping_current => (current_file = <<>> /\ ds_open = {}))
    /\ [][(skipping_current /\ (DsFileChunk \/ DsFileEnd)) =>
            /\ ds_disk' = ds_disk
            /\ ds_dirs' = ds_dirs
            /\ unread' = 0]_vars
    /\ [][(skipping_current /\ DsFileEnd) =>
            /\ skipped_files' = skipped_files + 1
            /\ files_received' = files_received
            /\ total_bytes' = total_bytes]_vars

\* a file under a reserved first segment was announced and, one command later,
\* ended with FILE_END
C21_Witness ==
    /\ command = "FILE_END"
    /\ FirstSegmentReserved(PathParts(relative_path))
    /\ skipped_files = 1
    /\ files_received = 0
    /\ ds_n = 3

\* C22: in the directory-mirror receiver a FILE_END whose declared size
\* differs from the bytes received for a non-reserved file is not fatal: the
\* file is counted in files_received, its bytes are added to total_bytes and
\* the receiver goes on with the next command.
C22_MismatchNotFatal ==
    [][(/\ ds_pc = "stream"
        /\ command' = "FILE_END"
        /\ ds_n' # ds_n
        /\ ~skipping_current
        /\ reported_size' # received_bytes) =>
            /\ files_received' = files_received + 1
            /\ total_bytes' = total_bytes + received_bytes
            /\ ds_pc' = "stream"
            /\ ds_error' = ""]_vars

\* a file on disk holds two bytes, its FILE_END declared none, and the file
\* was counted
C22_Witness ==
    /\ ds_pc = "stream"
    /\ command = "FILE_END"
    /\ reported_size = 0
    /\ files_received = 1
    /\ total_bytes = 2
    /\ \E target \in DOMAIN ds_disk : ds_disk[target] = 2

\* C23: the single-binary receiver never ends a run normally with fewer
\* bytes received than the size the sender declared.
C23_NoPartialFile ==
    (/\ tp_tool \in {"receiver", "tranfer_bin_from_esp32"}
     /\ tp_pc = "done"
     /\ tp_result = "0") => received >= rx_size

\* C24: a transfer utility reports success only when the confirmation of the
\* peer was received; a timeout of the final wait is never reported as
\* success.
C24_SuccessIsConfirmed ==
    (tp_tool \in CsvSenders /\ tp_pc = "done" /\ tp_result = "True") =>
        "SUCCESS" \in final_response

\* C25: the single-file V2 sender sends TRANSFER_END only after every chunk
\* was acknowledged with a matching ACK, and reports success only if the
\* response read after TRANSFER_END is TRANSFER_COMPLETE; any other response
\* and a timeout are reported as failure.
C25_EndAfterAllAcked ==
    /\ [](sf_pc = "wait_final" =>
            (sf_acked = ChunkOffsets(sf_size) /\ bytes_sent = sf_size))
    /\ []((sf_pc = "done" /\ sf_exit = 0) =>
            (sf_line = TRANSFER_COMPLETE /\ sf_acked = ChunkOffsets(sf_size)))
    /\ [][(sf_pc = "wait_final" /\ sf_pc' = "done") =>
            (sf_exit' = 0 <=> (sf_line' = TRANSFER_COMPLETE /\ sf_line' # sf_line))]_vars

\* a file of three chunks went through a retry and was confirmed
C25_Witness ==
    /\ sf_pc = "done"
    /\ sf_exit = 0
    /\ Cardinality(sf_acked) = 3
    /\ sf_delay = 50

\* the magic stands in the stream at position k
MagicAt(stream, k) ==
    /\ k + HEADER_LEN - 1 <= Len(stream)
    /\ SubSeq(stream, k, k + HEADER_LEN - 1) = CMD_HEADER

\* C26: read_next_command returns the byte that follows the first occurrence
\* of the magic in the stream and discards what precedes it; bytes that do
\* not hold the magic never make it return a command.
C26_ByteAfterFirstMagic ==
    rn_pc = "returned" =>
        \E k \in 1..Len(rn_input) :
            /\ MagicAt(rn_input, k)
            /\ \A j \in 1..(k - 1) : ~MagicAt(rn_input, j)
            /\ rn_command = rn_input[k + HEADER_LEN]
            /\ Len(rn_input) - Len(rn_stream) = k + HEADER_LEN

\* C27: every FILE_INFO frame of a V2 sender carries name, size, the CRC32
\* of the whole file and the chunk size, for every file size, 0 included.
C27_FileInfoV2Payload ==
    (IsV2(tool) /\ tx.kind = "FILE_INFO") =>
        /\ tx.frame.v2
        /\ tx.frame.size = file_size
        /\ tx.frame.crc = crc32(file_data)
        /\ tx.frame.chunk_size = CHUNK_SIZE

\* C28: every retransmission of a chunk by the V2 sender carries the offset,
\* length, CRC32 and bytes of its first transmission, and the sender goes past
\* a chunk only when it reads a matching ACK for the chunk's offset.
C28_RetryIdentical ==
    /\ [][(FrameSent /\ IsV2(tool) /\ tx'.kind = "FILE_CHUNK" /\ attempt > 1) =>
            (tx.kind = "FILE_CHUNK" /\ tx'.frame = tx.frame)]_vars
    /\ [][(IsV2(tool) /\ pc \in {"send_chunk", "wait_line"} /\ C1_Advanced) =>
            (pc = "wait_line" /\ C1_ReadMatchingAck)]_vars

\* the second chunk of a file was sent a third time
C28_Witness ==
    /\ IsV2(tool)
    /\ pc = "wait_line"
    /\ attempt = 3
    /\ tx.kind = "FILE_CHUNK"
    /\ tx.frame.offset = CHUNK_SIZE
    /\ tx.frame.data = Chunk(file_data, CHUNK_SIZE)

\* C29: the delay before the retry of a chunk grows with the number of
\* consecutive failures of that chunk, for NACKs as well as for timeouts: after
\* a further failure the sender waits, and at least as long as after the one
\* before.
C29_BackoffGrows ==
    [][(sf_pc = "wait_line" /\ sf_attempt > 1 /\ sf_attempt' = sf_attempt + 1) =>
            (sf_delay' > 0 /\ sf_delay' >= sf_delay)]_vars

\* C30: a session or dataset name of up to 255 encoded bytes is accepted and
\* sent with a length byte equal to its length; a longer name is rejected
\* before any byte of the request is written.
C30_NameLength ==
    nm_pc \in {"sent", "rejected"} =>
        IF nm_len <= 255
        THEN nm_pc = "sent" /\ nm_prefix = nm_len /\ nm_written > 0
        ELSE nm_pc = "rejected" /\ nm_written = 0

\* C31: when the V2 sender transmits the first attempt of a chunk past the
\* first, no response the receiver produced for an earlier frame is still
\* unread, so the first line read for the chunk answers that chunk.
C31_NoStaleResponse ==
    [][(FrameSent /\ IsV2(tool) /\ tx'.kind = "FILE_CHUNK" /\ attempt = 1
           /\ offset > 0)
          => chan = <<>>]_vars

\* C32: the dataset receiver decodes dataset frames only after the peer
\* answered the request with READY; any other answer, DONE included, does not
\* start the stream.
C32_StreamOnlyAfterReady ==
    ds_pc = "stream" => resp = "READY"

\* C33: when DATASET_DONE is processed, files_received is the number of
\* non-reserved files announced by FILE_INFO and closed by FILE_END, and
\* total_bytes is the number of bytes written to disk.
C33_CountersMatch ==
    (command = "DONE" /\ resp = "READY") =>
        (files_received = files_closed /\ total_bytes = bytes_written)

\* C34: the size announced in FILE_INFO is the number of bytes the announced
\* CRC32 covers and, when transfer_file returns True, the sum of the chunk
\* lengths sent, also when the file changes between the size query and the
\* read.
C34_SizeIsWhatIsSent ==
    /\ (gs_pc \in {"chunks", "done"} /\ gs_len # -1) => gs_size = gs_len
    /\ gs_result = "True" => gs_sent = gs_size

C36_NoOverrun ==
    tp_tool = "receiver" => received <= rx_size

\* C37: a command byte that is none of the four dataset commands leaves the
\* receiver's state as it was (open file, current path, received_bytes,
\* files_received, total_bytes, skipped_files, skip flag, the files on disk)
\* and the receiver goes on scanning for the next magic sequence.
C37_UnexpectedIsSkipped ==
    [][(ds_n' # ds_n /\ command' = "UNEXPECTED") =>
          /\ UNCHANGED <<current_file, ds_open, relative_path, received_bytes,
                         files_received, total_bytes, skipped_files,
                         skipping_current, ds_disk, ds_dirs>>
          /\ ds_pc' = "stream"
          /\ ds_error' = ""
          /\ unread' = 0]_vars

\* an unexpected command arrived while a file with bytes received was open
C37_Witness ==
    /\ command = "UNEXPECTED"
    /\ current_file # <<>>
    /\ current_file \in ds_open
    /\ received_bytes = MaxChunkLen
    /\ ds_pc = "stream"

====
